---- MODULE Spec2Model ----
(***************************************************************************)
(* Magic-Mirror: the image-generation service layer (geminiService.ts).    *)
(*                                                                         *)
(* One call of an entry point is followed from its start to its settled    *)
(* promise: the retry wrapper withRetry, the input normalisation           *)
(* prepareImageForAPI, the remote generateContent request and the          *)
(* extraction of the generated image from the response.                    *)
(*                                                                         *)
(* JavaScript strings are sequences of one-character strings, so that      *)
(* startsWith, includes and split are computed, not assumed.               *)
(***************************************************************************)
EXTENDS Integers, Sequences, FiniteSets, TLC

\* ------------------------------------------------------------------ bounds

\* Largest retry bound a direct caller of withRetry passes.
MaxRetries == 4

\* Largest number of content parts of one candidate of a remote response.
MaxParts == 3

\* ------------------------------------------------- constants of the program

\* withRetry(operation, retries = 3, delay = 1000)
DefaultRetries == 3

DefaultDelay == 1000

\* error.status of an error object that carries no status field.
NoStatus == 0

\* ----------------------------------------------------------------- strings

\* the literal of input.startsWith('http')
HTTP ==
    <<"h", "t", "t", "p">>

\* the literal of input.includes('base64,') and input.split('base64,')
BASE64_COMMA ==
    <<"b", "a", "s", "e", "6", "4", ",">>

\* the literal of res.split(',')
COMMA ==
    <<",">>

\* the literal prefix of the template `data:image/png;base64,${...}`
PNG_DATA_URI_PREFIX ==
    <<"d", "a", "t", "a", ":", "i", "m", "a", "g", "e", "/", "p", "n", "g", ";", "b", "a", "s",
      "e", "6", "4", ",">>

\* the literal of error.message?.includes('Internal error')
INTERNAL_ERROR ==
    <<"I", "n", "t", "e", "r", "n", "a", "l", " ", "e", "r", "r", "o", "r">>

\* the literal of error.message?.includes('Overloaded')
OVERLOADED ==
    <<"O", "v", "e", "r", "l", "o", "a", "d", "e", "d">>

\* new Error("No image generated from Flash model")
NO_IMAGE_MESSAGE ==
    <<"N", "o", " ", "i", "m", "a", "g", "e", " ", "g", "e", "n", "e", "r", "a", "t", "e", "d",
      " ", "f", "r", "o", "m", " ", "F", "l", "a", "s", "h", " ", "m", "o", "d", "e", "l">>

\* new Error("Could not process source image. ...")
SOURCE_IMAGE_MESSAGE ==
    <<"C", "o", "u", "l", "d", " ", "n", "o", "t", " ", "p", "r", "o", "c", "e", "s", "s", " ",
      "s", "o", "u", "r", "c", "e", " ", "i", "m", "a", "g", "e", ".", " ", "I", "f", " ", "u",
      "s", "i", "n", "g", " ", "a", " ", "d", "e", "m", "o", " ", "i", "m", "a", "g", "e", ",",
      " ", "e", "n", "s", "u", "r", "e", " ", "C", "O", "R", "S", " ", "i", "s", " ", "a", "l",
      "l", "o", "w", "e", "d", ".">>

\* Messages a remote failure may carry.
MSG_INTERNAL ==
    <<"I", "n", "t", "e", "r", "n", "a", "l", " ", "e", "r", "r", "o", "r", " ", "e", "n", "c",
      "o", "u", "n", "t", "e", "r", "e", "d", ".">>

MSG_OVERLOADED ==
    <<"T", "h", "e", " ", "m", "o", "d", "e", "l", " ", "i", "s", " ", "O", "v", "e", "r", "l",
      "o", "a", "d", "e", "d">>

MSG_LOWERCASE ==
    <<"m", "o", "d", "e", "l", " ", "o", "v", "e", "r", "l", "o", "a", "d", "e", "d", ",", " ",
      "i", "n", "t", "e", "r", "n", "a", "l", " ", "e", "r", "r", "o", "r">>

MSG_BAD_REQUEST ==
    <<"B", "a", "d", " ", "R", "e", "q", "u", "e", "s", "t">>

\* Pieces of the accepted image inputs.
URL_HTTPS ==
    <<"h", "t", "t", "p", "s", ":", "/", "/", "x", ".", "i", "o", "/", "a", ".", "j", "p", "g">>

URL_HTTP ==
    <<"h", "t", "t", "p", ":", "/", "/", "x", ".", "i", "o", "/", "a">>

DATA_SCHEME ==
    <<"d", "a", "t", "a", ":">>

SEMI_BASE64_COMMA ==
    <<";", "b", "a", "s", "e", "6", "4", ",">>

MIME_JPEG ==
    <<"i", "m", "a", "g", "e", "/", "j", "p", "e", "g">>

MIME_PNG ==
    <<"i", "m", "a", "g", "e", "/", "p", "n", "g">>

RAW_JPEG ==
    <<"/", "9", "j", "/", "4", "A", "A", "Q">>

RAW_PNG ==
    <<"i", "V", "B", "O", "R", "w", "0", "K">>

RAW_HTTP ==
    <<"h", "t", "t", "p", "A", "B", "+", "/">>

RAW_ABC123 ==
    <<"A", "B", "C", "1", "2", "3">>

\* ------------------------------------------------ JavaScript string methods

\* String.prototype.startsWith
StartsWith(s, prefix) ==
    /\ Len(s) >= Len(prefix)
    /\ SubSeq(s, 1, Len(prefix)) = prefix

\* String.prototype.indexOf(sub, from), 1-based; 0 when sub does not occur.
RECURSIVE IndexOf(_, _, _)
IndexOf(s, sub, from) ==
    IF from + Len(sub) - 1 > Len(s) THEN 0
    ELSE IF SubSeq(s, from, from + Len(sub) - 1) = sub THEN from
    ELSE IndexOf(s, sub, from + 1)

\* String.prototype.includes
Includes(s, sub) ==
    IndexOf(s, sub, 1) # 0

\* String.prototype.split(sep), for a non-empty separator.
RECURSIVE Split(_, _)
Split(s, sep) ==
    LET at == IndexOf(s, sep, 1)
    IN  IF at = 0 THEN <<s>>
        ELSE <<SubSeq(s, 1, at - 1)>> \o Split(SubSeq(s, at + Len(sep), Len(s)), sep)

\* The value `undefined`, where a string was expected.
Undefined ==
    <<"undefined">>

\* DEFAULT_CONFIG of MagicLens.tsx.
DEFAULT_CONFIG ==
    [blackAndWhite |-> FALSE, strictPose |-> TRUE, keepFace |-> TRUE,
     lockLocation |-> FALSE, lockProduct |-> TRUE]

\* A promise of generateVariantImage: the setting it was called with, its state
\* and, once fulfilled, its imageUrl.
Promise(setting, status, imageUrl) ==
    [setting |-> setting, status |-> status, imageUrl |-> imageUrl]

\* No A/B run has been started.
NoPromises ==
    <<>>

\* The value `null`, where a string was expected.
Null ==
    <<"null">>

\* pieces[1] of JavaScript (the second piece), undefined when there is none.
Index1(pieces) ==
    IF Len(pieces) >= 2 THEN pieces[2] ELSE Undefined

\* A data URI as FileReader.readAsDataURL and canvas.toDataURL build it.
DataUri(mime, payload) ==
    DATA_SCHEME \o mime \o SEMI_BASE64_COMMA \o payload

\* ------------------------------------------------------------------- errors

Err(kind, status, hasMessage, message) ==
    [kind |-> kind, status |-> status, hasMessage |-> hasMessage, message |-> message]

\* No error caught yet: `let lastError: any;`
NoError ==
    Err("none", NoStatus, FALSE, <<>>)

\* Failures of ai.models.generateContent (and of an arbitrary wrapped operation).
Statuses ==
    {NoStatus, 400, 429, 500, 503}

Messages ==
    {MSG_INTERNAL, MSG_OVERLOADED, MSG_LOWERCASE, MSG_BAD_REQUEST}

RemoteErrors ==
    {Err("ApiError", s, TRUE, m) : s \in Statuses, m \in Messages}
        \cup {Err("ApiError", s, FALSE, <<>>) : s \in Statuses}

\* Mutant: the fetch failure is passed on with the status of the failed response.
SourceImageErrorWithStatus ==
    Err("Error", 503, TRUE, SOURCE_IMAGE_MESSAGE)

\* throw new Error("Could not process source image. ...")
SourceImageError ==
    Err("Error", NoStatus, TRUE, SOURCE_IMAGE_MESSAGE)

\* reader.onerror = reject: the promise rejects with the reader's error event.
ReaderErrorEvent ==
    Err("ProgressEvent", NoStatus, FALSE, <<>>)

\* Mutant: the empty-result error carries a message withRetry takes for transient.
NoImageErrorInternal ==
    Err("Error", NoStatus, TRUE, INTERNAL_ERROR \o NO_IMAGE_MESSAGE)

\* throw new Error("No image generated from Flash model")
NoImageError ==
    Err("Error", NoStatus, TRUE, NO_IMAGE_MESSAGE)

\* Mutant: rate limiting (429) is retried too.
isRetryableWith429(error) ==
    \/ error.status \in {429, 500, 503}
    \/ (error.hasMessage /\ Includes(error.message, INTERNAL_ERROR))
    \/ (error.hasMessage /\ Includes(error.message, OVERLOADED))

\* Mutant: the 503 test is missing.
isRetryableWithout503(error) ==
    \/ error.status = 500
    \/ (error.hasMessage /\ Includes(error.message, INTERNAL_ERROR))
    \/ (error.hasMessage /\ Includes(error.message, OVERLOADED))

\* Mutant: the 'Overloaded' test is missing.
isRetryableWithoutOverloaded(error) ==
    \/ error.status = 503
    \/ error.status = 500
    \/ (error.hasMessage /\ Includes(error.message, INTERNAL_ERROR))

\* The condition of withRetry's catch block.
isRetryable(error) ==
    \/ error.status = 503
    \/ error.status = 500
    \/ (error.hasMessage /\ Includes(error.message, INTERNAL_ERROR))
    \/ (error.hasMessage /\ Includes(error.message, OVERLOADED))

\* Mutant: off by one, i <= retries.
loopContinuesInclusive(idx, bound) ==
    idx <= bound

\* The loop condition of withRetry: i < retries.
loopContinues(idx, bound) ==
    idx < bound

\* Mutant: exponential backoff, delay * 2^i.
backoffDelayExponential(d, idx) ==
    d * (2 ^ idx)

\* The wait after the failed attempt with loop index i: delay * (i + 1).
backoffDelay(d, idx) ==
    d * (idx + 1)

\* ------------------------------------------------------- inputs and responses

\* base64Image: a remote URL, a data URI, or a bare base64 payload.
Payloads ==
    {RAW_JPEG, RAW_PNG}

ImageInputs ==
    {URL_HTTPS, URL_HTTP, DataUri(MIME_JPEG, RAW_JPEG), DataUri(MIME_PNG, RAW_PNG),
     DataUri(MIME_JPEG, RAW_ABC123), DataUri(MIME_PNG, RAW_HTTP),
     RAW_JPEG, RAW_PNG, RAW_HTTP}

\* A content part of a candidate: text, or inlineData carrying image bytes.
TextPart ==
    [inline |-> FALSE, data |-> <<>>]

InlinePart(data) ==
    [inline |-> TRUE, data |-> data]

Parts ==
    {TextPart} \cup {InlinePart(p) : p \in Payloads}

RECURSIVE SeqsUpTo(_, _)
SeqsUpTo(S, n) ==
    IF n = 0 THEN {<<>>}
    ELSE LET shorter == SeqsUpTo(S, n - 1)
         IN  shorter \cup {Append(q, x) : q \in shorter, x \in S}

PartLists ==
    SeqsUpTo(Parts, MaxParts)

\* imageResponse: its candidates, each candidate given by its content.parts; a
\* missing candidates, content or parts field reads as the empty list (`?.`, `|| []`).
Response(candidates) ==
    [received |-> TRUE, candidates |-> candidates]

\* No response yet in the current attempt.
NoResponse ==
    [received |-> FALSE, candidates |-> <<>>]

Responses ==
    {Response(<<>>)}
        \cup {Response(<<ps>>) : ps \in PartLists}
        \cup {Response(<<ps, <<InlinePart(RAW_PNG)>>>>) : ps \in PartLists}

\* The values an arbitrary wrapped operation resolves with.
OpValues ==
    {<<"v", "1">>, <<"v", "2">>}

\* ------------------------------------------------------ the pure computations

\* prepareImageForAPI decides on a fetch by input.startsWith('http').
isRemoteUrl(input) ==
    StartsWith(input, HTTP)

\* Mutant: the prefix is cut by the length of "data:image/jpeg;base64,".
stripDataUriFixedLength(input) ==
    IF Includes(input, BASE64_COMMA)
    THEN SubSeq(input, Len(DataUri(MIME_JPEG, <<>>)) + 1, Len(input))
    ELSE input

\* prepareImageForAPI without a fetch: cases 2 and 3.
stripDataUri(input) ==
    IF Includes(input, BASE64_COMMA)
    THEN Index1(Split(input, BASE64_COMMA))
    ELSE input

\* reader.onloadend: resolve(res.split(',')[1])
readerPayload(res) ==
    Index1(Split(res, COMMA))

\* Mutant: the loop has no break, the last inline part wins.
RECURSIVE scanPartsNoBreak(_, _)
scanPartsNoBreak(parts, k) ==
    IF k > Len(parts) THEN <<>>
    ELSE LET later == scanPartsNoBreak(parts, k + 1)
         IN  IF later # <<>> THEN later
             ELSE IF parts[k].inline THEN PNG_DATA_URI_PREFIX \o parts[k].data
             ELSE <<>>

\* The loop over imageResponse.candidates?.[0]?.content?.parts || [].
RECURSIVE scanParts(_, _)
scanParts(parts, k) ==
    IF k > Len(parts) THEN <<>>
    ELSE IF parts[k].inline THEN PNG_DATA_URI_PREFIX \o parts[k].data
    ELSE scanParts(parts, k + 1)

firstCandidateParts(response) ==
    IF Len(response.candidates) >= 1 THEN response.candidates[1] ELSE <<>>

extractImage(response) ==
    scanParts(firstCandidateParts(response), 1)

\* Mutant: the fallback returns the cleaned payload, not the original input.
marketingImageUrlCleaned(response, input) ==
    IF extractImage(response) = <<>> THEN stripDataUri(input) ELSE extractImage(response)

\* generateMarketingImage: if (!generatedImageUrl) generatedImageUrl = base64Image
marketingImageUrl(response, input) ==
    IF extractImage(response) = <<>> THEN input ELSE extractImage(response)

\* The spec's taxonomy (section 7): TransientServiceError.
Transient(error) ==
    \/ error.status \in {500, 503}
    \/ /\ error.hasMessage
       /\ \E marker \in {INTERNAL_ERROR, OVERLOADED} :
            \E at \in 1..Len(error.message) :
                /\ at + Len(marker) - 1 <= Len(error.message)
                /\ \A k \in 1..Len(marker) : error.message[at + k - 1] = marker[k]

\* The class of a failed attempt, for the attempt history.
Classify(error) ==
    IF Transient(error) THEN "transient" ELSE "terminal"

\* -------------------------------------------------------------------- state

VARIABLES
    fn,             \* the entry point of the call being followed
    base64Image,    \* its image argument
    retries,        \* withRetry's bound
    delay,          \* withRetry's base delay, ms
    pc,             \* where the call is suspended
    i,              \* withRetry's loop index
    lastError,      \* withRetry's lastError
    cleanBase64,    \* the normalised image of the current attempt
    blob,           \* the fetched image, as the base64 text of its bytes
    imageResponse,  \* the remote response of the current attempt
    settled,        \* the state of the promise the entry point returned
    value,          \* what it resolved with (imageUrl, or the operation's value)
    thrown,         \* what it rejected with
    attempts,       \* history: invocations of the wrapped operation
    waits,          \* history: the backoff waits started, in order
    log,            \* history: per attempt, "ok" | "transient" | "terminal"
    attemptError,   \* history: the error the latest failed attempt raised
    attemptValue,   \* history: the value the latest successful attempt returned
    fetches,        \* history: fetch() requests issued
    remoteCalls     \* history: generateContent requests issued

\* MagicLens.tsx: the component state its handlers write.
VARIABLES
    appState,           \* AppState
    capturedImage,      \* string | null
    generatedResult,    \* the imageUrl of {imageUrl} | null
    showDesignStudio,   \* whether the Design Studio modal is open
    cameraRequested,    \* startCamera is suspended on getUserMedia
    others,             \* captures in flight besides the call being followed
    interrupted         \* history: a handler ran while the followed call was in flight

\* The prompt built inside generateMarketingImage.
VARIABLES
    config,             \* GenerationConfig
    userPrompt,         \* the free-text context
    prompt,             \* the composed instruction
    composer            \* which generateMarketingImage composed it, "none" before

\* DesignStudio (src/unnamed/part_000): the A/B test.
VARIABLES
    selectedSetting,    \* id of the selected entry of SETTINGS
    selectedAngle,      \* id of the selected entry of ANGLES
    isRunningAB,
    abResults,          \* ABTestResult[]
    variantA_Setting,   \* the control setting of the latest run, "none" before
    variantB_Setting,   \* the challenger setting of the latest run, "none" before
    results,            \* the two promises handed to Promise.allSettled
    order,              \* history: the positions of the promises, as they settled
    alerted,            \* the latest run ended in the alert
    variantAngles       \* the angle arguments of the two calls in flight, <<>> when none

\* MagicLens: the live voice session of the capture view.
VARIABLES
    cameraStarts,       \* startCamera calls suspended at their awaits
    keyWaits,           \* startLiveSession calls suspended at ensureApiKey
    micWaits,           \* startLiveSession calls suspended at getUserMedia
    sessions,           \* the sessions connected so far, in order
    liveSessionRef,     \* liveSessionRef.current: an index of sessions, 0 for null
    captureLockRef,     \* captureLockRef.current
    sentTo              \* the session the latest step sent an audio chunk to, 0: none

\* DesignStudio (src/unnamed/part_000): the live voice session of the studio.
VARIABLES
    isMicEnabled,
    timeoutId,          \* the setTimeout of the voice effect is pending
    studioKeyWaits,     \* startLiveSession calls suspended at ensureApiKey
    studioMicWaits,     \* startLiveSession calls suspended at getUserMedia
    studioSessions,     \* the sessions connected so far, with their microphone streams
    studioSessionRef    \* liveSessionRef.current: an index of studioSessions, 0 for null

\* MagicLens: the failure notification of captureAndGenerate.
VARIABLES
    captureAlerts       \* history: alerts raised by its catch block, modulo AlertWindow

\* DesignStudio (src/unnamed/part_000): the remix and the voice tool calls.
VARIABLES
    mode,               \* 'remix' | 'editorial' | 'ab'
    isGenerating,
    isGeneratingRef,    \* isGeneratingRef.current
    generatedVariants,  \* string[]
    lastCommand,        \* string | null
    remixPending,       \* generateVariantImage calls of handleGenerate in flight
    remixStarted,       \* history: how many handleGenerate started
    remixFailed,        \* history: how many of them rejected
    remixAlerts,        \* history: alerts raised by handleGenerate
    toolCall,           \* functionCalls of the latest tool-call message, <<>> before
    toolResponses,      \* the tool responses sent since that message arrived
    toolMessages        \* history: how many tool-call messages arrived

callVars ==
    <<fn, base64Image, retries, delay, pc, i, lastError, cleanBase64, blob,
      imageResponse, settled, value, thrown, attempts, waits, log, attemptError,
      attemptValue, fetches, remoteCalls>>

lensVars ==
    <<appState, capturedImage, generatedResult, showDesignStudio, cameraRequested,
      others, interrupted>>

promptVars ==
    <<config, userPrompt, prompt, composer>>

studioVars ==
    <<selectedSetting, selectedAngle, isRunningAB, abResults, variantA_Setting,
      variantB_Setting, results, order, alerted, variantAngles>>

remixVars ==
    <<mode, isGenerating, isGeneratingRef, generatedVariants, lastCommand,
      remixPending, remixStarted, remixFailed, remixAlerts, toolCall, toolResponses,
      toolMessages>>

voiceVars ==
    <<cameraStarts, keyWaits, micWaits, sessions, liveSessionRef, captureLockRef,
      sentTo>>

studioVoiceVars ==
    <<isMicEnabled, timeoutId, studioKeyWaits, studioMicWaits, studioSessions,
      studioSessionRef>>

alertVars ==
    <<captureAlerts>>

otherVars ==
    <<lensVars, promptVars, studioVars, remixVars, alertVars, voiceVars, studioVoiceVars>>

vars ==
    <<callVars, otherVars>>

CallInit ==
    /\ fn = "withRetry"
    /\ base64Image = <<>>
    /\ retries = DefaultRetries
    /\ delay = DefaultDelay
    /\ pc = "idle"
    /\ i = 0
    /\ lastError = NoError
    /\ cleanBase64 = <<>>
    /\ blob = <<>>
    /\ imageResponse = NoResponse
    /\ settled = "pending"
    /\ value = <<>>
    /\ thrown = NoError
    /\ attempts = 0
    /\ waits = <<>>
    /\ log = <<>>
    /\ attemptError = NoError
    /\ attemptValue = <<>>
    /\ fetches = 0
    /\ remoteCalls = 0

\* The alerts of the capture view are counted modulo this.
AlertWindow == 3

\* MagicLens as mounted.
LensInit ==
    /\ captureAlerts = 0
    /\ appState = "IDLE"
    /\ capturedImage = Null
    /\ generatedResult = Null
    /\ showDesignStudio = FALSE
    /\ cameraRequested = FALSE
    /\ others = 0
    /\ interrupted = FALSE

\* No prompt has been composed; the configuration is the default one.
PromptInit ==
    /\ config = DEFAULT_CONFIG
    /\ userPrompt = <<>>
    /\ prompt = <<>>
    /\ composer = "none"

\* DesignStudio as mounted: SETTINGS[0], ANGLES[0], no A/B run.
StudioInit ==
    /\ selectedSetting = "marble"
    /\ selectedAngle = "eye"
    /\ isRunningAB = FALSE
    /\ abResults = <<>>
    /\ variantA_Setting = "none"
    /\ variantB_Setting = "none"
    /\ results = NoPromises
    /\ order = <<>>
    /\ alerted = FALSE
    /\ variantAngles = <<>>

\* MagicLens as mounted: no live session, no start pending.
VoiceInit ==
    /\ cameraStarts = 0
    /\ keyWaits = 0
    /\ micWaits = 0
    /\ sessions = <<>>
    /\ liveSessionRef = 0
    /\ captureLockRef = FALSE
    /\ sentTo = 0

\* DesignStudio as mounted: the microphone toggle is on, no live session.
StudioVoiceInit ==
    /\ isMicEnabled = TRUE
    /\ timeoutId = FALSE
    /\ studioKeyWaits = 0
    /\ studioMicWaits = 0
    /\ studioSessions = <<>>
    /\ studioSessionRef = 0

\* DesignStudio as mounted, before any image: remix mode, nothing generated.
RemixInit ==
    /\ mode = "remix"
    /\ isGenerating = FALSE
    /\ isGeneratingRef = FALSE
    /\ generatedVariants = <<>>
    /\ lastCommand = Null
    /\ remixPending = 0
    /\ remixStarted = 0
    /\ remixFailed = 0
    /\ remixAlerts = 0
    /\ toolCall = <<>>
    /\ toolResponses = <<>>
    /\ toolMessages = 0

Init ==
    /\ CallInit
    /\ LensInit
    /\ PromptInit
    /\ StudioInit
    /\ RemixInit
    /\ VoiceInit
    /\ StudioVoiceInit

\* A fresh call, with fresh locals.
Begin(f, img, r) ==
    /\ pc = "idle"
    /\ fn' = f
    /\ base64Image' = img
    /\ retries' = r
    /\ delay' = DefaultDelay
    /\ i' = 0
    /\ lastError' = NoError
    /\ blob' = <<>>
    /\ imageResponse' = NoResponse
    /\ settled' = "pending"
    /\ value' = <<>>
    /\ thrown' = NoError
    /\ waits' = <<>>
    /\ log' = <<>>
    /\ attemptError' = NoError
    /\ attemptValue' = <<>>
    /\ fetches' = 0

\* withRetry(operation, retries) called directly with an arbitrary operation.
withRetry ==
    \E r \in 1..MaxRetries :
        /\ Begin("withRetry", <<>>, r)
        /\ pc' = "loop"
        /\ cleanBase64' = <<>>
        /\ attempts' = 0
        /\ remoteCalls' = 0
        /\ UNCHANGED otherVars

\* generateMarketingImage(base64Image, userPrompt, config): return withRetry(...)
generateMarketingImage ==
    \E img \in ImageInputs :
        /\ Begin("generateMarketingImage", img, DefaultRetries)
        /\ pc' = "loop"
        /\ cleanBase64' = <<>>
        /\ attempts' = 0
        /\ remoteCalls' = 0
        /\ UNCHANGED otherVars

\* generateVariantImage(base64Image, setting, angle): return withRetry(...)
generateVariantImage ==
    \E img \in ImageInputs :
        /\ Begin("generateVariantImage", img, DefaultRetries)
        /\ pc' = "loop"
        /\ cleanBase64' = <<>>
        /\ attempts' = 0
        /\ remoteCalls' = 0
        /\ UNCHANGED otherVars

\* The operation returned v: withRetry returns it and the promise resolves.
Resolve(v) ==
    /\ attemptValue' = v
    /\ settled' = "fulfilled"
    /\ value' = v
    /\ pc' = "done"
    /\ UNCHANGED <<thrown, i, lastError, waits, attemptError>>

\* withRetry's catch block.
catchError(error) ==
    /\ lastError' = error
    /\ attemptError' = error
    /\ log' = Append(log, Classify(error))
    /\ IF isRetryable(error)
       THEN /\ waits' = Append(waits, backoffDelay(delay, i))
            /\ pc' = "backoff"
            /\ UNCHANGED <<settled, thrown>>
       ELSE /\ settled' = "rejected"
            /\ thrown' = error
            /\ pc' = "done"
            /\ UNCHANGED waits
    /\ UNCHANGED <<i, value, attemptValue>>

\* for (let i = 0; i < retries; i++) { try { return await operation(); ...
\* The operation runs up to its first suspension: prepareImageForAPI either starts
\* a fetch or returns the normalised input, and then generateContent is requested.
Attempt ==
    /\ pc = "loop"
    /\ loopContinues(i, retries)
    /\ attempts' = attempts + 1
    /\ IF fn = "withRetry"
       THEN /\ pc' = "operation"
            /\ UNCHANGED <<cleanBase64, fetches, remoteCalls>>
       ELSE IF isRemoteUrl(base64Image)
       THEN /\ pc' = "fetch"
            /\ fetches' = fetches + 1
            /\ cleanBase64' = <<>>
            /\ UNCHANGED remoteCalls
       ELSE /\ pc' = "remote"
            /\ cleanBase64' = stripDataUri(base64Image)
            /\ remoteCalls' = remoteCalls + 1
            /\ UNCHANGED fetches
    /\ blob' = <<>>
    /\ imageResponse' = NoResponse
    /\ UNCHANGED <<fn, base64Image, retries, delay, i, lastError, settled, value, thrown,
                   waits, log, attemptError, attemptValue>>
    /\ UNCHANGED otherVars

\* The loop ends without a return: throw lastError.
Exhausted ==
    /\ pc = "loop"
    /\ ~loopContinues(i, retries)
    /\ settled' = "rejected"
    /\ thrown' = lastError
    /\ pc' = "done"
    /\ UNCHANGED <<fn, base64Image, retries, delay, i, lastError, cleanBase64, blob,
                   imageResponse, value, attempts, waits, log, attemptError, attemptValue,
                   fetches, remoteCalls>>
    /\ UNCHANGED otherVars

\* The setTimeout of the catch block fires; the loop increments i.
BackoffElapsed ==
    /\ pc = "backoff"
    /\ i' = i + 1
    /\ pc' = "loop"
    /\ UNCHANGED <<fn, base64Image, retries, delay, lastError, cleanBase64, blob,
                   imageResponse, settled, value, thrown, attempts, waits, log,
                   attemptError, attemptValue, fetches, remoteCalls>>
    /\ UNCHANGED otherVars

\* An arbitrary wrapped operation resolves.
OperationResolves ==
    \E v \in OpValues :
        /\ pc = "operation"
        /\ log' = Append(log, "ok")
        /\ Resolve(v)
        /\ UNCHANGED <<fn, base64Image, retries, delay, cleanBase64, blob, imageResponse,
                       attempts, fetches, remoteCalls>>
        /\ UNCHANGED otherVars

\* An arbitrary wrapped operation rejects.
OperationRejects ==
    \E error \in RemoteErrors :
        /\ pc = "operation"
        /\ catchError(error)
        /\ UNCHANGED <<fn, base64Image, retries, delay, cleanBase64, blob, imageResponse,
                       attempts, fetches, remoteCalls>>
        /\ UNCHANGED otherVars

\* fetch(input, {mode: 'cors'}) rejects (network failure, CORS denial) or answers
\* with a non-OK status: both end in the catch of prepareImageForAPI.
FetchFails ==
    /\ pc = "fetch"
    /\ catchError(SourceImageError)
    /\ UNCHANGED <<fn, base64Image, retries, delay, cleanBase64, blob, imageResponse,
                   attempts, fetches, remoteCalls>>
    /\ UNCHANGED otherVars

\* fetch answers OK and response.blob() yields the image bytes.
FetchOk ==
    \E b \in Payloads :
        /\ pc = "fetch"
        /\ blob' = b
        /\ pc' = "read"
        /\ UNCHANGED <<fn, base64Image, retries, delay, i, lastError, cleanBase64,
                       imageResponse, settled, value, thrown, attempts, waits, log,
                       attemptError, attemptValue, fetches, remoteCalls>>
        /\ UNCHANGED otherVars

\* reader.onloadend: resolve(res.split(',')[1]); generateContent is requested.
ReaderLoadEnd ==
    \E mime \in {MIME_JPEG, MIME_PNG} :
        /\ pc = "read"
        /\ cleanBase64' = readerPayload(DataUri(mime, blob))
        /\ remoteCalls' = remoteCalls + 1
        /\ pc' = "remote"
        /\ UNCHANGED <<fn, base64Image, retries, delay, i, lastError, blob, imageResponse,
                       settled, value, thrown, attempts, waits, log, attemptError,
                       attemptValue, fetches>>
        /\ UNCHANGED otherVars

\* reader.onerror = reject: the returned promise is not awaited inside the try, so
\* the rejection passes the catch of prepareImageForAPI untouched.
ReaderError ==
    /\ pc = "read"
    /\ catchError(ReaderErrorEvent)
    /\ UNCHANGED <<fn, base64Image, retries, delay, cleanBase64, blob, imageResponse,
                   attempts, fetches, remoteCalls>>
    /\ UNCHANGED otherVars

\* generateMarketingImage of src/services/geminiService.ts: no retry wrapper and no
\* fetch; the input is cleaned inline and generateContent is requested at once.
generateMarketingImageNoRetry ==
    \E img \in ImageInputs :
        /\ Begin("generateMarketingImageNoRetry", img, DefaultRetries)
        /\ attempts' = 1
        /\ cleanBase64' = stripDataUri(img)
        /\ remoteCalls' = 1
        /\ pc' = "remote"
        /\ UNCHANGED otherVars

\* ai.models.generateContent rejects. The operation's own catch logs and rethrows.
RemoteRejectsWith(errors) ==
    \E error \in errors :
        /\ pc = "remote"
        /\ IF fn = "generateMarketingImageNoRetry"
           THEN /\ settled' = "rejected"
                /\ thrown' = error
                /\ attemptError' = error
                /\ log' = Append(log, Classify(error))
                /\ pc' = "done"
                /\ UNCHANGED <<i, lastError, waits, value, attemptValue>>
           ELSE catchError(error)
        /\ UNCHANGED <<fn, base64Image, retries, delay, cleanBase64, blob, imageResponse,
                       attempts, fetches, remoteCalls>>
        /\ UNCHANGED otherVars

\* ai.models.generateContent resolves; the generated image is extracted.
RemoteResolvesWith(responses) ==
    \E response \in responses :
        /\ pc = "remote"
        /\ imageResponse' = response
        /\ IF fn = "generateVariantImage" /\ extractImage(response) = <<>>
           THEN catchError(NoImageError)
           ELSE /\ log' = Append(log, "ok")
                /\ Resolve(IF fn = "generateVariantImage"
                           THEN extractImage(response)
                           ELSE marketingImageUrl(response, base64Image))
        /\ UNCHANGED <<fn, base64Image, retries, delay, cleanBase64, blob, attempts,
                       fetches, remoteCalls>>
        /\ UNCHANGED otherVars

\* The remote call of the current attempt rejects with any of the errors.
RemoteRejects ==
    RemoteRejectsWith(RemoteErrors)

\* The remote call of the current attempt resolves with any of the responses.
RemoteResolves ==
    RemoteResolvesWith(Responses)

\* The locals of a call that is over are gone: the state before any call.
FreshCall ==
    /\ fn' = "withRetry"
    /\ base64Image' = <<>>
    /\ retries' = DefaultRetries
    /\ delay' = DefaultDelay
    /\ pc' = "idle"
    /\ i' = 0
    /\ lastError' = NoError
    /\ cleanBase64' = <<>>
    /\ blob' = <<>>
    /\ imageResponse' = NoResponse
    /\ settled' = "pending"
    /\ value' = <<>>
    /\ thrown' = NoError
    /\ attempts' = 0
    /\ waits' = <<>>
    /\ log' = <<>>
    /\ attemptError' = NoError
    /\ attemptValue' = <<>>
    /\ fetches' = 0
    /\ remoteCalls' = 0

\* The caller has taken the settled promise's outcome; the call's state is dropped.
Return ==
    /\ pc = "done"
    /\ FreshCall
    /\ UNCHANGED otherVars

Next ==
    \/ withRetry
    \/ generateMarketingImage
    \/ generateVariantImage
    \/ generateMarketingImageNoRetry
    \/ Attempt
    \/ Exhausted
    \/ BackoffElapsed
    \/ OperationResolves
    \/ OperationRejects
    \/ FetchFails
    \/ FetchOk
    \/ ReaderLoadEnd
    \/ ReaderError
    \/ RemoteRejects
    \/ RemoteResolves
    \/ Return

Spec ==
    Init /\ [][Next]_vars

\* ------------------------------------- the prompt of generateMarketingImage

\* let stylePrompt = ...
STYLE_COMMERCIAL ==
    <<"C", "o", "m", "m", "e", "r", "c", "i", "a", "l", ",", " ", "H", "i", "g", "h", " ",
      "K", "e", "y", ",", " ", "8", "k", " ", "R", "e", "s", "o", "l", "u", "t", "i", "o",
      "n", ",", " ", "S", "h", "a", "r", "p", " ", "F", "o", "c", "u", "s", ".">>

STYLE_MONOCHROME ==
    <<"B", "l", "a", "c", "k", " ", "a", "n", "d", " ", "W", "h", "i", "t", "e", " ", "P",
      "h", "o", "t", "o", "g", "r", "a", "p", "h", "y", ",", " ", "H", "i", "g", "h", " ",
      "C", "o", "n", "t", "r", "a", "s", "t", ",", " ", "N", "o", "i", "r", " ", "S", "t",
      "y", "l", "e", ",", " ", "A", "n", "s", "e", "l", " ", "A", "d", "a", "m", "s", " ",
      "a", "e", "s", "t", "h", "e", "t", "i", "c", ".">>

\* let posePrompt = ...
POSE_BASE ==
    <<"T", "h", "e", " ", "o", "b", "j", "e", "c", "t", " ", "b", "e", "i", "n", "g", " ",
      "h", "e", "l", "d", " ", "(", "t", "h", "e", " ", "p", "r", "o", "d", "u", "c", "t",
      ")", " ", "M", "U", "S", "T", " ", "r", "e", "m", "a", "i", "n", " ", "e", "x", "a",
      "c", "t", "l", "y", " ", "a", "s", " ", "i", "t", " ", "a", "p", "p", "e", "a", "r",
      "s", ".", " ", "E", "n", "s", "u", "r", "e", " ", "t", "h", "e", " ", "h", "a", "n",
      "d", " ", "g", "r", "i", "p", " ", "i", "s", " ", "n", "a", "t", "u", "r", "a", "l",
      ".">>

POSE_STRICT ==
    <<" ", "S", "T", "R", "I", "C", "T", "L", "Y", " ", "m", "i", "m", "i", "c", " ", "t",
      "h", "e", " ", "e", "x", "a", "c", "t", " ", "a", "r", "m", " ", "a", "n", "g", "l",
      "e", ",", " ", "h", "a", "n", "d", " ", "g", "r", "i", "p", ",", " ", "a", "n", "d",
      " ", "b", "o", "d", "y", " ", "p", "o", "s", "t", "u", "r", "e", " ", "o", "f", " ",
      "t", "h", "e", " ", "r", "e", "f", "e", "r", "e", "n", "c", "e", " ", "i", "m", "a",
      "g", "e", ".", " ", "D", "o", " ", "n", "o", "t", " ", "m", "o", "v", "e", " ", "t",
      "h", "e", " ", "a", "r", "m", ".">>

POSE_CREATIVE ==
    <<" ", "Y", "o", "u", " ", "h", "a", "v", "e", " ", "c", "r", "e", "a", "t", "i", "v",
      "e", " ", "f", "r", "e", "e", "d", "o", "m", " ", "w", "i", "t", "h", " ", "t", "h",
      "e", " ", "p", "o", "s", "e", ".", " ", "A", "n", "a", "l", "y", "z", "e", " ", "t",
      "h", "e", " ", "p", "r", "o", "d", "u", "c", "t", " ", "t", "y", "p", "e", " ", "a",
      "n", "d", " ", "u", "s", "e", " ", "y", "o", "u", "r", " ", "b", "e", "s", "t", " ",
      "j", "u", "d", "g", "e", "m", "e", "n", "t", " ", "t", "o", " ", "s", "e", "l", "e",
      "c", "t", " ", "t", "h", "e", " ", "m", "o", "s", "t", " ", "f", "l", "a", "t", "t",
      "e", "r", "i", "n", "g", " ", "a", "n", "g", "l", "e", ",", " ", "g", "r", "i", "p",
      ",", " ", "a", "n", "d", " ", "b", "o", "d", "y", " ", "p", "o", "s", "t", "u", "r",
      "e", " ", "t", "o", " ", "s", "h", "o", "w", "c", "a", "s", "e", " ", "i", "t", ".",
      " ", "C", "h", "a", "n", "g", "e", " ", "t", "h", "e", " ", "a", "r", "m", " ", "p",
      "o", "s", "i", "t", "i", "o", "n", " ", "t", "o", " ", "w", "h", "a", "t", " ", "s",
      "e", "l", "l", "s", " ", "t", "h", "i", "s", " ", "s", "p", "e", "c", "i", "f", "i",
      "c", " ", "p", "r", "o", "d", "u", "c", "t", " ", "b", "e", "s", "t", ".", " ", "D",
      "o", " ", "n", "o", "t", " ", "f", "e", "e", "l", " ", "b", "o", "u", "n", "d", " ",
      "b", "y", " ", "t", "h", "e", " ", "o", "r", "i", "g", "i", "n", "a", "l", " ", "p",
      "o", "s", "t", "u", "r", "e", ".">>

\* src/services/geminiService.ts: the strict pose sentence, without its last sentence
POSE_STRICT_NO_RETRY ==
    <<" ", "S", "T", "R", "I", "C", "T", "L", "Y", " ", "m", "i", "m", "i", "c", " ", "t",
      "h", "e", " ", "e", "x", "a", "c", "t", " ", "a", "r", "m", " ", "a", "n", "g", "l",
      "e", ",", " ", "h", "a", "n", "d", " ", "g", "r", "i", "p", ",", " ", "a", "n", "d",
      " ", "b", "o", "d", "y", " ", "p", "o", "s", "t", "u", "r", "e", " ", "o", "f", " ",
      "t", "h", "e", " ", "r", "e", "f", "e", "r", "e", "n", "c", "e", " ", "i", "m", "a",
      "g", "e", ".">>

\* let facePrompt = ...
FACE_REPLACE ==
    <<"R", "e", "p", "l", "a", "c", "e", " ", "t", "h", "e", " ", "p", "e", "r", "s", "o",
      "n", " ", "w", "i", "t", "h", " ", "a", " ", "p", "r", "o", "f", "e", "s", "s", "i",
      "o", "n", "a", "l", " ", "m", "o", "d", "e", "l", " ", "o", "r", " ", "c", "h", "a",
      "r", "a", "c", "t", "e", "r", " ", "t", "h", "a", "t", " ", "f", "i", "t", "s", " ",
      "t", "h", "e", " ", "c", "o", "n", "t", "e", "x", "t", ".">>

FACE_KEEP ==
    <<"K", "e", "e", "p", " ", "t", "h", "e", " ", "u", "s", "e", "r", "'", "s", " ", "f",
      "a", "c", "e", " ", "a", "n", "d", " ", "i", "d", "e", "n", "t", "i", "t", "y", " ",
      "r", "e", "c", "o", "g", "n", "i", "z", "a", "b", "l", "e", ",", " ", "b", "u", "t",
      " ", "e", "n", "h", "a", "n", "c", "e", " ", "l", "i", "g", "h", "t", "i", "n", "g",
      " ", "a", "n", "d", " ", "s", "k", "i", "n", " ", "t", "e", "x", "t", "u", "r", "e",
      " ", "f", "o", "r", " ", "a", " ", "p", "r", "o", "f", "e", "s", "s", "i", "o", "n",
      "a", "l", " ", "l", "o", "o", "k", ".">>

FACE_SWAP ==
    <<"G", "e", "n", "e", "r", "a", "t", "i", "v", "e", " ", "s", "w", "a", "p", ":", " ",
      "R", "e", "p", "l", "a", "c", "e", " ", "t", "h", "e", " ", "p", "e", "r", "s", "o",
      "n", " ", "i", "n", " ", "t", "h", "e", " ", "i", "m", "a", "g", "e", " ", "w", "i",
      "t", "h", " ", "a", " ", "g", "e", "n", "e", "r", "a", "t", "e", "d", " ", "m", "o",
      "d", "e", "l", ".", " ", "U", "s", "e", " ", "y", "o", "u", "r", " ", "b", "e", "s",
      "t", " ", "j", "u", "d", "g", "e", "m", "e", "n", "t", " ", "t", "o", " ", "s", "e",
      "l", "e", "c", "t", " ", "a", " ", "m", "o", "d", "e", "l", " ", "(", "a", "g", "e",
      ",", " ", "g", "e", "n", "d", "e", "r", ",", " ", "s", "t", "y", "l", "e", ")", " ",
      "t", "h", "a", "t", " ", "c", "r", "e", "a", "t", "e", "s", " ", "t", "h", "e", " ",
      "s", "t", "r", "o", "n", "g", "e", "s", "t", " ", "a", "p", "p", "e", "a", "l", " ",
      "f", "o", "r", " ", "t", "h", "i", "s", " ", "s", "p", "e", "c", "i", "f", "i", "c",
      " ", "p", "r", "o", "d", "u", "c", "t", " ", "d", "e", "m", "o", "g", "r", "a", "p",
      "h", "i", "c", ".", " ", "D", "o", " ", "N", "O", "T", " ", "p", "r", "e", "s", "e",
      "r", "v", "e", " ", "t", "h", "e", " ", "o", "r", "i", "g", "i", "n", "a", "l", " ",
      "i", "d", "e", "n", "t", "i", "t", "y", ".">>

\* locationPrompt when config.lockLocation
LOCATION_LOCK ==
    <<"M", "a", "i", "n", "t", "a", "i", "n", " ", "t", "h", "e", " ", "o", "r", "i", "g",
      "i", "n", "a", "l", " ", "b", "a", "c", "k", "g", "r", "o", "u", "n", "d", " ", "e",
      "n", "v", "i", "r", "o", "n", "m", "e", "n", "t", " ", "a", "n", "d", " ", "g", "e",
      "o", "m", "e", "t", "r", "y", ".", " ", "D", "o", " ", "n", "o", "t", " ", "g", "e",
      "n", "e", "r", "a", "t", "e", " ", "a", " ", "n", "e", "w", " ", "b", "a", "c", "k",
      "g", "r", "o", "u", "n", "d", ",", " ", "o", "n", "l", "y", " ", "e", "n", "h", "a",
      "n", "c", "e", " ", "t", "h", "e", " ", "e", "x", "i", "s", "t", "i", "n", "g", " ",
      "o", "n", "e", ".">>

\* let productPreservationPrompt = ...
PRODUCT_FOCUS ==
    <<"T", "h", "e", " ", "o", "b", "j", "e", "c", "t", " ", "h", "e", "l", "d", " ", "i",
      "n", " ", "t", "h", "e", " ", "h", "a", "n", "d", " ", "i", "s", " ", "t", "h", "e",
      " ", "f", "o", "c", "u", "s", ".">>

PRODUCT_PRESERVATION ==
    <<"\n", " ", " ", " ", " ", " ", " ", " ", " ", "C", "R", "I", "T", "I", "C", "A", "L",
      " ", "-", " ", "P", "R", "O", "D", "U", "C", "T", " ", "P", "R", "E", "S", "E", "R",
      "V", "A", "T", "I", "O", "N", ":", "\n", " ", " ", " ", " ", " ", " ", " ", " ", "T",
      "h", "e", " ", "o", "b", "j", "e", "c", "t", " ", "h", "e", "l", "d", " ", "i", "n",
      " ", "t", "h", "e", " ", "h", "a", "n", "d", " ", "i", "s", " ", "a", " ", "r", "e",
      "a", "l", " ", "c", "o", "m", "m", "e", "r", "c", "i", "a", "l", " ", "p", "r", "o",
      "d", "u", "c", "t", ".", " ", "\n", " ", " ", " ", " ", " ", " ", " ", " ", "Y", "o",
      "u", " ", "M", "U", "S", "T", " ", "p", "r", "e", "s", "e", "r", "v", "e", " ", "t",
      "h", "e", " ", "P", "R", "O", "D", "U", "C", "T", " ", "T", "E", "X", "T", ",", " ",
      "L", "O", "G", "O", "S", ",", " ", "a", "n", "d", " ", "L", "A", "B", "E", "L", " ",
      "D", "E", "T", "A", "I", "L", "S", " ", "e", "x", "a", "c", "t", "l", "y", " ", "a",
      "s", " ", "t", "h", "e", "y", " ", "a", "p", "p", "e", "a", "r", " ", "i", "n", " ",
      "t", "h", "e", " ", "r", "e", "f", "e", "r", "e", "n", "c", "e", " ", "i", "m", "a",
      "g", "e", ".", "\n", " ", " ", " ", " ", " ", " ", " ", " ", "D", "o", " ", "n", "o",
      "t", " ", "h", "a", "l", "l", "u", "c", "i", "n", "a", "t", "e", " ", "n", "e", "w",
      " ", "t", "e", "x", "t", " ", "o", "n", " ", "t", "h", "e", " ", "l", "a", "b", "e",
      "l", ".", " ", "D", "o", " ", "n", "o", "t", " ", "b", "l", "u", "r", " ", "o", "r",
      " ", "d", "i", "s", "t", "o", "r", "t", " ", "t", "h", "e", " ", "b", "r", "a", "n",
      "d", " ", "n", "a", "m", "e", ".", "\n", " ", " ", " ", " ", " ", " ", " ", " ", "T",
      "r", "e", "a", "t", " ", "t", "h", "e", " ", "p", "r", "o", "d", "u", "c", "t", " ",
      "p", "i", "x", "e", "l", "s", " ", "a", "s", " ", "g", "r", "o", "u", "n", "d", " ",
      "t", "r", "u", "t", "h", ".", "\n", " ", " ", " ", " ", " ", " ", " ", " ">>

\* src/services/geminiService.ts: the same block, indented by six
PRODUCT_PRESERVATION_NO_RETRY ==
    <<"\n", " ", " ", " ", " ", " ", " ", "C", "R", "I", "T", "I", "C", "A", "L", " ", "-",
      " ", "P", "R", "O", "D", "U", "C", "T", " ", "P", "R", "E", "S", "E", "R", "V", "A",
      "T", "I", "O", "N", ":", "\n", " ", " ", " ", " ", " ", " ", "T", "h", "e", " ", "o",
      "b", "j", "e", "c", "t", " ", "h", "e", "l", "d", " ", "i", "n", " ", "t", "h", "e",
      " ", "h", "a", "n", "d", " ", "i", "s", " ", "a", " ", "r", "e", "a", "l", " ", "c",
      "o", "m", "m", "e", "r", "c", "i", "a", "l", " ", "p", "r", "o", "d", "u", "c", "t",
      ".", " ", "\n", " ", " ", " ", " ", " ", " ", "Y", "o", "u", " ", "M", "U", "S", "T",
      " ", "p", "r", "e", "s", "e", "r", "v", "e", " ", "t", "h", "e", " ", "P", "R", "O",
      "D", "U", "C", "T", " ", "T", "E", "X", "T", ",", " ", "L", "O", "G", "O", "S", ",",
      " ", "a", "n", "d", " ", "L", "A", "B", "E", "L", " ", "D", "E", "T", "A", "I", "L",
      "S", " ", "e", "x", "a", "c", "t", "l", "y", " ", "a", "s", " ", "t", "h", "e", "y",
      " ", "a", "p", "p", "e", "a", "r", " ", "i", "n", " ", "t", "h", "e", " ", "r", "e",
      "f", "e", "r", "e", "n", "c", "e", " ", "i", "m", "a", "g", "e", ".", "\n", " ", " ",
      " ", " ", " ", " ", "D", "o", " ", "n", "o", "t", " ", "h", "a", "l", "l", "u", "c",
      "i", "n", "a", "t", "e", " ", "n", "e", "w", " ", "t", "e", "x", "t", " ", "o", "n",
      " ", "t", "h", "e", " ", "l", "a", "b", "e", "l", ".", " ", "D", "o", " ", "n", "o",
      "t", " ", "b", "l", "u", "r", " ", "o", "r", " ", "d", "i", "s", "t", "o", "r", "t",
      " ", "t", "h", "e", " ", "b", "r", "a", "n", "d", " ", "n", "a", "m", "e", ".", "\n",
      " ", " ", " ", " ", " ", " ", "T", "r", "e", "a", "t", " ", "t", "h", "e", " ", "p",
      "r", "o", "d", "u", "c", "t", " ", "p", "i", "x", "e", "l", "s", " ", "a", "s", " ",
      "g", "r", "o", "u", "n", "d", " ", "t", "r", "u", "t", "h", ".", "\n", " ", " ", " ",
      " ", " ", " ">>

\* const prompt = `...`: the template literal, its six substitutions in order.
promptTemplate(product, pose, face, context, location, style) ==
    <<"\n", " ", " ", " ", " ", " ", " ", " ", " ", "P", "r", "o", "f", "e", "s", "s",
         "i", "o", "n", "a", "l", " ", "P", "r", "o", "d", "u", "c", "t", " ", "P", "h",
         "o", "t", "o", "g", "r", "a", "p", "h", "y", ".", " ", "\n", " ", " ", " ", " ",
         " ", " ", " ", " ", "T", "a", "s", "k", ":", " ", "T", "r", "a", "n", "s", "f",
         "o", "r", "m", " ", "t", "h", "i", "s", " ", "r", "e", "f", "e", "r", "e", "n",
         "c", "e", " ", "i", "m", "a", "g", "e", " ", "i", "n", "t", "o", " ", "a", " ",
         "h", "i", "g", "h", "-", "e", "n", "d", " ", "c", "o", "m", "m", "e", "r", "c",
         "i", "a", "l", " ", "a", "d", "v", "e", "r", "t", "i", "s", "e", "m", "e", "n",
         "t", ".", "\n", " ", " ", " ", " ", " ", " ", " ", " ", "\n", " ", " ", " ", " ",
         " ", " ", " ", " ">>
    \o product
    \o <<"\n", " ", " ", "\n", " ", " ", " ", " ", " ", " ", " ", " ", "P", "r", "o", "d",
         "u", "c", "t", " ", "I", "n", "t", "e", "g", "r", "i", "t", "y", ":", " ">>
    \o pose
    \o <<"\n", " ", " ", " ", " ", " ", " ", " ", " ", "S", "u", "b", "j", "e", "c", "t",
         ":", " ">>
    \o face
    \o <<"\n", " ", " ", " ", " ", " ", " ", " ", " ", "C", "o", "n", "t", "e", "x", "t",
         "/", "B", "a", "c", "k", "g", "r", "o", "u", "n", "d", ":", " ">>
    \o context
    \o <<".", " ">>
    \o location
    \o <<"\n", " ", " ", " ", " ", " ", " ", " ", " ", "S", "t", "y", "l", "e", ":", " ">>
    \o style
    \o <<"\n", " ", " ", " ", " ", " ", " ">>

\* src/services/geminiService.ts: the same template, indented by six.
promptTemplateNoRetry(product, pose, face, context, location, style) ==
    <<"\n", " ", " ", " ", " ", " ", " ", "P", "r", "o", "f", "e", "s", "s", "i", "o",
         "n", "a", "l", " ", "P", "r", "o", "d", "u", "c", "t", " ", "P", "h", "o", "t",
         "o", "g", "r", "a", "p", "h", "y", ".", " ", "\n", " ", " ", " ", " ", " ", " ",
         "T", "a", "s", "k", ":", " ", "T", "r", "a", "n", "s", "f", "o", "r", "m", " ",
         "t", "h", "i", "s", " ", "r", "e", "f", "e", "r", "e", "n", "c", "e", " ", "i",
         "m", "a", "g", "e", " ", "i", "n", "t", "o", " ", "a", " ", "h", "i", "g", "h",
         "-", "e", "n", "d", " ", "c", "o", "m", "m", "e", "r", "c", "i", "a", "l", " ",
         "a", "d", "v", "e", "r", "t", "i", "s", "e", "m", "e", "n", "t", ".", "\n", " ",
         " ", " ", " ", " ", " ", "\n", " ", " ", " ", " ", " ", " ">>
    \o product
    \o <<"\n", "\n", " ", " ", " ", " ", " ", " ", "P", "r", "o", "d", "u", "c", "t", " ",
         "I", "n", "t", "e", "g", "r", "i", "t", "y", ":", " ">>
    \o pose
    \o <<"\n", " ", " ", " ", " ", " ", " ", "S", "u", "b", "j", "e", "c", "t", ":", " ">>
    \o face
    \o <<"\n", " ", " ", " ", " ", " ", " ", "C", "o", "n", "t", "e", "x", "t", "/", "B",
         "a", "c", "k", "g", "r", "o", "u", "n", "d", ":", " ">>
    \o context
    \o <<".", " ">>
    \o location
    \o <<"\n", " ", " ", " ", " ", " ", " ", "S", "t", "y", "l", "e", ":", " ">>
    \o style
    \o <<"\n", " ", " ", " ", " ">>

\* Mutant: the monochrome style is added to the default style.
stylePromptAppending(cfg) ==
    IF cfg.blackAndWhite
    THEN STYLE_COMMERCIAL \o <<" ">> \o STYLE_MONOCHROME
    ELSE STYLE_COMMERCIAL

\* if (config.blackAndWhite) stylePrompt = ...
stylePrompt(cfg) ==
    IF cfg.blackAndWhite THEN STYLE_MONOCHROME ELSE STYLE_COMMERCIAL

\* if (config.strictPose) posePrompt += ...; else posePrompt += ...
posePrompt(cfg) ==
    POSE_BASE \o (IF cfg.strictPose THEN POSE_STRICT ELSE POSE_CREATIVE)

\* src/services/geminiService.ts: if (config.strictPose) posePrompt += ...; no else.
posePromptNoRetry(cfg) ==
    POSE_BASE \o (IF cfg.strictPose THEN POSE_STRICT_NO_RETRY ELSE <<>>)

\* if (config.keepFace) facePrompt = ...; else facePrompt = ...
facePrompt(cfg) ==
    IF cfg.keepFace THEN FACE_KEEP ELSE FACE_SWAP

\* src/services/geminiService.ts: the initial facePrompt stays unless keepFace.
facePromptNoRetry(cfg) ==
    IF cfg.keepFace THEN FACE_KEEP ELSE FACE_REPLACE

\* let locationPrompt = ""; if (config.lockLocation) locationPrompt = ...
locationPrompt(cfg) ==
    IF cfg.lockLocation THEN LOCATION_LOCK ELSE <<>>

\* if (config.lockProduct) productPreservationPrompt = `...`
productPreservationPrompt(cfg) ==
    IF cfg.lockProduct THEN PRODUCT_PRESERVATION ELSE PRODUCT_FOCUS

productPreservationPromptNoRetry(cfg) ==
    IF cfg.lockProduct THEN PRODUCT_PRESERVATION_NO_RETRY ELSE PRODUCT_FOCUS

\* Mutant: the context is cut to its first word.
buildPromptFirstWord(cfg, context) ==
    promptTemplate(productPreservationPrompt(cfg), posePrompt(cfg), facePrompt(cfg),
                   Split(context, <<" ">>)[1], locationPrompt(cfg), stylePrompt(cfg))

\* The prompt of generateMarketingImage (src/unnamed/part_002).
buildPrompt(cfg, context) ==
    promptTemplate(productPreservationPrompt(cfg), posePrompt(cfg), facePrompt(cfg),
                   context, locationPrompt(cfg), stylePrompt(cfg))

\* The prompt of generateMarketingImage (src/services/geminiService.ts).
buildPromptNoRetry(cfg, context) ==
    promptTemplateNoRetry(productPreservationPromptNoRetry(cfg), posePromptNoRetry(cfg),
                          facePromptNoRetry(cfg), context, locationPrompt(cfg),
                          stylePrompt(cfg))

\* GenerationConfig: five booleans, every combination well-formed.
Configs ==
    [blackAndWhite : BOOLEAN, strictPose : BOOLEAN, keepFace : BOOLEAN,
     lockLocation : BOOLEAN, lockProduct : BOOLEAN]

\* A context the user dictates or types.
CONTEXT_BEACH_SUNSET ==
    <<"b", "e", "a", "c", "h", " ", "s", "u", "n", "s", "e", "t">>

\* MagicLens.tsx: promptToUse when the transcript is too short.
CONTEXT_DEFAULT ==
    <<"A", " ", "p", "r", "o", "f", "e", "s", "s", "i", "o", "n", "a", "l", " ", "s", "t",
      "u", "d", "i", "o", " ", "p", "r", "o", "d", "u", "c", "t", " ", "s", "h", "o", "t",
      " ", "w", "i", "t", "h", " ", "c", "i", "n", "e", "m", "a", "t", "i", "c", " ", "l",
      "i", "g", "h", "t", "i", "n", "g", ".">>

\* A context that carries the text of a style clause.
CONTEXT_QUOTES_MONOCHROME ==
    <<"i", "n", " ", "a", " ", "d", "a", "r", "k", "r", "o", "o", "m", ".", " ", "B", "l",
      "a", "c", "k", " ", "a", "n", "d", " ", "W", "h", "i", "t", "e", " ", "P", "h", "o",
      "t", "o", "g", "r", "a", "p", "h", "y", ",", " ", "H", "i", "g", "h", " ", "C", "o",
      "n", "t", "r", "a", "s", "t", ",", " ", "N", "o", "i", "r", " ", "S", "t", "y", "l",
      "e", ",", " ", "A", "n", "s", "e", "l", " ", "A", "d", "a", "m", "s", " ", "a", "e",
      "s", "t", "h", "e", "t", "i", "c", ".">>

\* A context that carries the background sentence up to its period.
CONTEXT_QUOTES_BACKGROUND ==
    <<"M", "a", "i", "n", "t", "a", "i", "n", " ", "t", "h", "e", " ", "o", "r", "i", "g",
      "i", "n", "a", "l", " ", "b", "a", "c", "k", "g", "r", "o", "u", "n", "d", " ", "e",
      "n", "v", "i", "r", "o", "n", "m", "e", "n", "t", " ", "a", "n", "d", " ", "g", "e",
      "o", "m", "e", "t", "r", "y", ".", " ", "D", "o", " ", "n", "o", "t", " ", "g", "e",
      "n", "e", "r", "a", "t", "e", " ", "a", " ", "n", "e", "w", " ", "b", "a", "c", "k",
      "g", "r", "o", "u", "n", "d", ",", " ", "o", "n", "l", "y", " ", "e", "n", "h", "a",
      "n", "c", "e", " ", "t", "h", "e", " ", "e", "x", "i", "s", "t", "i", "n", "g", " ",
      "o", "n", "e">>

Contexts ==
    {CONTEXT_BEACH_SUNSET, CONTEXT_DEFAULT, CONTEXT_QUOTES_MONOCHROME,
     CONTEXT_QUOTES_BACKGROUND}

\* A call of generateMarketingImage is about to build its prompt.
ComposerInit ==
    /\ CallInit
    /\ LensInit
    /\ StudioInit
    /\ RemixInit
    /\ VoiceInit
    /\ StudioVoiceInit
    /\ config \in Configs
    /\ userPrompt \in Contexts
    /\ prompt = <<>>
    /\ composer = "none"

\* "Build the prompt based on configuration", src/unnamed/part_002.
BuildPrompt ==
    /\ composer = "none"
    /\ prompt' = buildPrompt(config, userPrompt)
    /\ composer' = "generateMarketingImage"
    /\ UNCHANGED <<config, userPrompt>>
    /\ UNCHANGED <<callVars, lensVars, studioVars, remixVars, alertVars, voiceVars, studioVoiceVars>>

\* "Build the prompt based on configuration", src/services/geminiService.ts.
BuildPromptNoRetry ==
    /\ composer = "none"
    /\ prompt' = buildPromptNoRetry(config, userPrompt)
    /\ composer' = "generateMarketingImageNoRetry"
    /\ UNCHANGED <<config, userPrompt>>
    /\ UNCHANGED <<callVars, lensVars, studioVars, remixVars, alertVars, voiceVars, studioVoiceVars>>

NextPrompt ==
    \/ BuildPrompt
    \/ BuildPromptNoRetry

SpecPrompt ==
    ComposerInit /\ [][NextPrompt]_vars

\* ------------------------------------------------------------- MagicLens.tsx

\* Captures that may be in flight besides the call being followed.
MaxOthers == 1

DEMO_IMAGE_URL ==
    <<"h", "t", "t", "p", "s", ":", "/", "/", "i", "m", "a", "g", "e", "s", ".", "u",
      "n", "s", "p", "l", "a", "s", "h", ".", "c", "o", "m", "/", "p", "h", "o", "t",
      "o", "-", "1", "5", "4", "2", "2", "9", "1", "0", "2", "6", "-", "7", "e", "e",
      "c", "2", "6", "4", "c", "2", "7", "f", "f", "?", "i", "x", "l", "i", "b", "=",
      "r", "b", "-", "4", ".", "0", ".", "3", "&", "a", "u", "t", "o", "=", "f", "o",
      "r", "m", "a", "t", "&", "f", "i", "t", "=", "c", "r", "o", "p", "&", "w", "=",
      "1", "0", "0", "0", "&", "q", "=", "8", "0">>

\* canvas.toDataURL('image/jpeg', 0.95)
CapturedFrames ==
    {DataUri(MIME_JPEG, RAW_JPEG)}

\* What a capture that is not followed may resolve with.
OtherResults ==
    {PNG_DATA_URI_PREFIX \o RAW_PNG}

\* The remote outcomes drawn on while the component is followed: a retryable and
\* a terminal rejection, a response without an image and one with an image.
LensErrors ==
    {Err("ApiError", 503, TRUE, MSG_OVERLOADED), Err("ApiError", 400, TRUE, MSG_BAD_REQUEST)}

LensResponses ==
    {Response(<<>>), Response(<<<<InlinePart(RAW_PNG)>>>>)}

LensRemoteRejects ==
    RemoteRejectsWith(LensErrors)

LensRemoteResolves ==
    RemoteResolvesWith(LensResponses)

\* The effect of DesignStudio on a new originalImage (part_000: 158-162), which
\* runs with the render that follows setCapturedImage: an empty generatedVariants
\* becomes [originalImage].
initialVariants(image) ==
    IF generatedVariants = <<>> THEN <<image>> ELSE generatedVariants

\* A handler of the component ran while the followed call was in flight.
Interrupt ==
    interrupted' = (interrupted \/ pc \notin {"idle", "done"})

\* startCamera, up to its suspension on ensureApiKey and getUserMedia. The button
\* is rendered while appState is IDLE.
startCamera ==
    /\ appState = "IDLE"
    /\ cameraRequested' = TRUE
    /\ Interrupt
    /\ UNCHANGED <<appState, capturedImage, generatedResult, showDesignStudio, others>>
    /\ UNCHANGED <<callVars, promptVars, studioVars, remixVars, alertVars, voiceVars, studioVoiceVars>>

\* getUserMedia resolves: setAppState(AppState.CAMERA_ACTIVE).
getUserMediaResolves ==
    /\ cameraRequested
    /\ cameraRequested' = FALSE
    /\ appState' = "CAMERA_ACTIVE"
    /\ Interrupt
    /\ UNCHANGED <<capturedImage, generatedResult, showDesignStudio, others>>
    /\ UNCHANGED <<callVars, promptVars, studioVars, remixVars, alertVars, voiceVars, studioVoiceVars>>

\* The key is refused or getUserMedia rejects: an alert, no state is written.
getUserMediaRejects ==
    /\ cameraRequested
    /\ cameraRequested' = FALSE
    /\ Interrupt
    /\ UNCHANGED <<appState, capturedImage, generatedResult, showDesignStudio, others>>
    /\ UNCHANGED <<callVars, promptVars, studioVars, remixVars, alertVars, voiceVars, studioVoiceVars>>

\* captureAndGenerate, up to `await generateMarketingImage(dataUrl, ...)`. The
\* capture button is rendered with the video element, while CAMERA_ACTIVE. The
\* model follows one call: a capture started while that call is in flight runs in
\* a closure of its own and is only counted.
captureAndGenerate ==
    \E dataUrl \in CapturedFrames :
        /\ appState = "CAMERA_ACTIVE"
        /\ appState' = "PROCESSING"
        /\ capturedImage' = dataUrl
        /\ IF pc = "idle"
           THEN /\ Begin("generateMarketingImage", dataUrl, DefaultRetries)
                /\ pc' = "loop"
                /\ cleanBase64' = <<>>
                /\ attempts' = 0
                /\ remoteCalls' = 0
                /\ UNCHANGED others
           ELSE /\ others < MaxOthers
                /\ others' = others + 1
                /\ UNCHANGED callVars
        /\ Interrupt
        /\ generatedVariants' = initialVariants(dataUrl)
        /\ UNCHANGED <<mode, isGenerating, isGeneratingRef, lastCommand, remixPending,
                       remixStarted, remixFailed, remixAlerts, toolCall, toolResponses,
                       toolMessages>>
        /\ UNCHANGED <<generatedResult, showDesignStudio, cameraRequested>>
        /\ UNCHANGED <<promptVars, studioVars, alertVars, voiceVars, studioVoiceVars>>

\* captureAndGenerate after the await: the result is shown, or the catch block
\* alerts and returns to IDLE.
captureAndGenerateResumes ==
    /\ pc = "done"
    /\ fn = "generateMarketingImage"
    /\ IF settled = "fulfilled"
       THEN /\ generatedResult' = value
            /\ appState' = "RESULT"
            /\ UNCHANGED captureAlerts
       ELSE /\ captureAlerts' = (captureAlerts + 1) % AlertWindow
            /\ appState' = "IDLE"
            /\ UNCHANGED generatedResult
    /\ FreshCall
    /\ interrupted' = FALSE
    /\ UNCHANGED <<capturedImage, showDesignStudio, cameraRequested, others>>
    /\ UNCHANGED <<promptVars, studioVars, remixVars, voiceVars, studioVoiceVars>>

\* A capture that is not followed settles.
OtherCaptureSettles ==
    /\ others > 0
    /\ others' = others - 1
    /\ \/ \E imageUrl \in OtherResults :
            /\ generatedResult' = imageUrl
            /\ appState' = "RESULT"
            /\ UNCHANGED captureAlerts
       \/ /\ captureAlerts' = (captureAlerts + 1) % AlertWindow
          /\ appState' = "IDLE"
          /\ UNCHANGED generatedResult
    /\ Interrupt
    /\ UNCHANGED <<capturedImage, showDesignStudio, cameraRequested>>
    /\ UNCHANGED <<callVars, promptVars, studioVars, remixVars, voiceVars, studioVoiceVars>>

\* loadDemoImage. Its button is rendered while there is no generatedResult.
loadDemoImage ==
    /\ generatedResult = Null
    /\ capturedImage' = DEMO_IMAGE_URL
    /\ generatedResult' = DEMO_IMAGE_URL
    /\ appState' = "RESULT"
    /\ Interrupt
    /\ generatedVariants' = initialVariants(DEMO_IMAGE_URL)
    /\ UNCHANGED <<mode, isGenerating, isGeneratingRef, lastCommand, remixPending,
                   remixStarted, remixFailed, remixAlerts, toolCall, toolResponses,
                   toolMessages>>
    /\ UNCHANGED <<showDesignStudio, cameraRequested, others>>
    /\ UNCHANGED <<callVars, promptVars, studioVars, alertVars, voiceVars, studioVoiceVars>>

\* Mutant: reset abandons the call in flight.
resetAborting ==
    /\ generatedResult # Null
    /\ capturedImage' = Null
    /\ generatedResult' = Null
    /\ appState' = "IDLE"
    /\ cameraRequested' = TRUE
    /\ FreshCall
    /\ interrupted' = FALSE
    /\ UNCHANGED <<showDesignStudio, others>>
    /\ UNCHANGED <<promptVars, studioVars, remixVars, alertVars, voiceVars, studioVoiceVars>>

\* reset. Its button is rendered with the generatedResult. It ends in startCamera().
reset ==
    /\ generatedResult # Null
    /\ capturedImage' = Null
    /\ generatedResult' = Null
    /\ appState' = "IDLE"
    /\ cameraRequested' = TRUE
    /\ Interrupt
    /\ UNCHANGED <<showDesignStudio, others>>
    /\ UNCHANGED <<callVars, promptVars, studioVars, remixVars, alertVars, voiceVars, studioVoiceVars>>

\* The Remix Studio button, rendered with the generatedResult:
\* setShowDesignStudio(true).
openDesignStudio ==
    /\ generatedResult # Null
    /\ ~showDesignStudio
    /\ showDesignStudio' = TRUE
    /\ Interrupt
    /\ UNCHANGED <<appState, capturedImage, generatedResult, cameraRequested, others>>
    /\ UNCHANGED <<callVars, promptVars, studioVars, remixVars, alertVars, voiceVars, studioVoiceVars>>

\* onClose of the Design Studio: setShowDesignStudio(false).
onClose ==
    /\ showDesignStudio
    /\ showDesignStudio' = FALSE
    /\ Interrupt
    /\ UNCHANGED <<appState, capturedImage, generatedResult, cameraRequested, others>>
    /\ UNCHANGED <<callVars, promptVars, studioVars, remixVars, alertVars, voiceVars, studioVoiceVars>>

NextLens ==
    \/ startCamera
    \/ getUserMediaResolves
    \/ getUserMediaRejects
    \/ captureAndGenerate
    \/ captureAndGenerateResumes
    \/ OtherCaptureSettles
    \/ loadDemoImage
    \/ reset
    \/ openDesignStudio
    \/ onClose
    \/ Attempt
    \/ Exhausted
    \/ BackoffElapsed
    \/ LensRemoteRejects
    \/ LensRemoteResolves

\* Every attempt and every backoff wait settles; the user owes nothing.
SpecLens ==
    /\ Init
    /\ [][NextLens]_vars
    /\ WF_vars(Attempt)
    /\ WF_vars(Exhausted)
    /\ WF_vars(BackoffElapsed)
    /\ WF_vars(LensRemoteRejects \/ LensRemoteResolves)

\* ------------------------------------------ DesignStudio (src/unnamed/part_000)

\* SETTINGS, by id, in order.
SETTINGS ==
    <<"marble", "neon", "nature", "minimal", "kitchen", "bananas">>

\* The label of the entry of SETTINGS with this id. The last label ends in an
\* emoji (U+1F34C) in the source, written here as its code point.
SettingLabel(id) ==
    CASE id = "marble" -> "Marble Studio"
      [] id = "neon" -> "Cyber Street"
      [] id = "nature" -> "Deep Nature"
      [] id = "minimal" -> "Ultra Minimal"
      [] id = "kitchen" -> "Cozy Kitchen"
      [] id = "bananas" -> "Go Bananas U+1F34C"

\* ANGLES, by id, in order.
ANGLES ==
    <<"eye", "top", "low", "macro">>

Range(seq) ==
    {seq[k] : k \in DOMAIN seq}

\* The prop originalImage={capturedImage} of MagicLens.
originalImage ==
    capturedImage

\* Mutant: the challenger is drawn from all of SETTINGS.
otherSettingsUnfiltered(selected) ==
    SETTINGS

\* SETTINGS.filter(s => s.id !== selectedSetting.id)
otherSettings(selected) ==
    SelectSeq(SETTINGS, LAMBDA id : id # selected)

\* What generateVariantImage resolves with: a PNG data URI (never the input).
VariantImages ==
    {PNG_DATA_URI_PREFIX \o p : p \in Payloads}

\* The draws of Math.random() behind stats: ctr in tenths (1.5 .. 4.5) and score
\* (70 .. 94), at their extremes.
StatDraws ==
    {[ctr |-> 15, score |-> 70], [ctr |-> 45, score |-> 94]}

IMPRESSIONS_A == 1240

IMPRESSIONS_B == 1180

ABTestResult(id, image, settingName, draw, impressions) ==
    [id |-> id, image |-> image, settingName |-> settingName,
     stats |-> [ctr |-> draw.ctr, score |-> draw.score, impressions |-> impressions]]

\* Mutant: the outcomes are delivered in the order the promises settled.
allSettledByCompletion(promises, completion) ==
    [k \in 1..Len(completion) |-> promises[completion[k]]]

\* await Promise.allSettled([...]): the outcomes, in the order of the argument
\* whatever the order of completion.
allSettled(promises, completion) ==
    promises

\* validResults after "Process Result A" and "Process Result B".
validResults(outcomes, a, b, drawA, drawB) ==
    (IF outcomes[1].status = "fulfilled"
     THEN <<ABTestResult("A", outcomes[1].imageUrl, SettingLabel(a), drawA, IMPRESSIONS_A)>>
     ELSE <<>>)
    \o
    (IF outcomes[2].status = "fulfilled"
     THEN <<ABTestResult("B", outcomes[2].imageUrl, SettingLabel(b), drawB, IMPRESSIONS_B)>>
     ELSE <<>>)

\* Mutant: a run with fewer than two results is given up.
bothFailedOrOne(valid) ==
    Len(valid) < 2

\* if (validResults.length === 0) throw new Error("Both variants failed ...")
bothFailed(valid) ==
    Len(valid) = 0

\* MagicLens with the studio open: on the demo image, on a capture with its
\* result, and after reset (the studio stays open over an emptied component).
StudioOpened ==
    \/ /\ appState = "RESULT"
       /\ capturedImage = DEMO_IMAGE_URL
       /\ generatedResult = DEMO_IMAGE_URL
       /\ cameraRequested = FALSE
    \/ /\ appState = "RESULT"
       /\ capturedImage \in CapturedFrames
       /\ generatedResult \in OtherResults
       /\ cameraRequested = FALSE
    \/ /\ appState = "IDLE"
       /\ capturedImage = Null
       /\ generatedResult = Null
       /\ cameraRequested = TRUE

\* The studio as opened: the effect that sets generatedVariants to
\* [originalImage] has run on the image it was opened with (the demo image when
\* a reset has emptied the component since).
RemixOpenedInit ==
    /\ mode = "remix"
    /\ isGenerating = FALSE
    /\ isGeneratingRef = FALSE
    /\ generatedVariants =
         <<IF originalImage # Null THEN originalImage ELSE DEMO_IMAGE_URL>>
    /\ lastCommand = Null
    /\ remixPending = 0
    /\ remixStarted = 0
    /\ remixFailed = 0
    /\ remixAlerts = 0
    /\ toolCall = <<>>
    /\ toolResponses = <<>>
    /\ toolMessages = 0

StudioOpenedInit ==
    /\ CallInit
    /\ VoiceInit
    /\ StudioVoiceInit
    /\ captureAlerts = 0
    /\ PromptInit
    /\ StudioInit
    /\ StudioOpened
    /\ RemixOpenedInit
    /\ showDesignStudio = TRUE
    /\ others = 0
    /\ interrupted = FALSE

\* onClick={() => setSelectedSetting(s)}, and the changeVibe voice tool.
setSelectedSetting ==
    \E s \in Range(SETTINGS) :
        /\ selectedSetting' = s
        /\ UNCHANGED <<selectedAngle, isRunningAB, abResults, variantA_Setting,
                       variantB_Setting, results, order, alerted, variantAngles>>
        /\ UNCHANGED <<callVars, lensVars, promptVars, remixVars, alertVars, voiceVars, studioVoiceVars>>

\* onClick={() => setSelectedAngle(a)}, and the changeAngle voice tool.
setSelectedAngle ==
    \E a \in Range(ANGLES) :
        /\ selectedAngle' = a
        /\ UNCHANGED <<selectedSetting, isRunningAB, abResults, variantA_Setting,
                       variantB_Setting, results, order, alerted, variantAngles>>
        /\ UNCHANGED <<callVars, lensVars, promptVars, remixVars, alertVars, voiceVars, studioVoiceVars>>

\* handleRunABTest up to `await Promise.allSettled([...])`: both calls are issued.
\* Math.random() picks the challenger, here among the given settings.
handleRunABTestWith(challengers) ==
    \E b \in Range(otherSettings(selectedSetting)) \cap challengers :
        /\ ~(originalImage = Null \/ isRunningAB)
        /\ isRunningAB' = TRUE
        /\ abResults' = <<>>
        /\ variantA_Setting' = selectedSetting
        /\ variantB_Setting' = b
        /\ results' = <<Promise(selectedSetting, "pending", <<>>),
                        Promise(b, "pending", <<>>)>>
        /\ variantAngles' = <<selectedAngle, selectedAngle>>
        /\ order' = <<>>
        /\ alerted' = FALSE
        /\ UNCHANGED <<selectedSetting, selectedAngle>>
        /\ UNCHANGED <<callVars, lensVars, promptVars, remixVars, alertVars, voiceVars, studioVoiceVars>>

handleRunABTest ==
    handleRunABTestWith(Range(SETTINGS))

\* One of the two generateVariantImage calls resolves, with one of these images.
VariantResolvesWith(images) ==
    \E k \in DOMAIN results, imageUrl \in images :
        /\ results[k].status = "pending"
        /\ results' = [results EXCEPT ![k] = Promise(results[k].setting, "fulfilled", imageUrl)]
        /\ order' = Append(order, k)
        /\ UNCHANGED <<selectedSetting, selectedAngle, isRunningAB, abResults,
                       variantA_Setting, variantB_Setting, alerted, variantAngles>>
        /\ UNCHANGED <<callVars, lensVars, promptVars, remixVars, alertVars, voiceVars, studioVoiceVars>>

VariantResolves ==
    VariantResolvesWith(VariantImages)

\* One of the two generateVariantImage calls rejects.
VariantRejects ==
    \E k \in DOMAIN results :
        /\ results[k].status = "pending"
        /\ results' = [results EXCEPT ![k] = Promise(results[k].setting, "rejected", <<>>)]
        /\ order' = Append(order, k)
        /\ UNCHANGED <<selectedSetting, selectedAngle, isRunningAB, abResults,
                       variantA_Setting, variantB_Setting, alerted, variantAngles>>
        /\ UNCHANGED <<callVars, lensVars, promptVars, remixVars, alertVars, voiceVars, studioVoiceVars>>

\* handleRunABTest after the await: both promises have settled. The results are
\* stored, or the throw ends in the alert of the catch block; finally
\* setIsRunningAB(false).
handleRunABTestResumesWith(draws) ==
    \E drawA \in draws, drawB \in draws :
        LET valid == validResults(allSettled(results, order), variantA_Setting,
                                  variantB_Setting, drawA, drawB)
        IN  /\ isRunningAB
            /\ \A k \in DOMAIN results : results[k].status # "pending"
            /\ IF bothFailed(valid)
               THEN /\ alerted' = TRUE
                    /\ UNCHANGED abResults
               ELSE /\ abResults' = valid
                    /\ UNCHANGED alerted
            /\ isRunningAB' = FALSE
            /\ variantAngles' = <<>>
            /\ UNCHANGED <<selectedSetting, selectedAngle, variantA_Setting,
                           variantB_Setting, results, order>>
            /\ UNCHANGED <<callVars, lensVars, promptVars, remixVars, alertVars, voiceVars, studioVoiceVars>>

handleRunABTestResumes ==
    handleRunABTestResumesWith(StatDraws)

NextStudio ==
    \/ setSelectedSetting
    \/ setSelectedAngle
    \/ handleRunABTest
    \/ VariantResolves
    \/ VariantRejects
    \/ handleRunABTestResumes

SpecStudio ==
    StudioOpenedInit /\ [][NextStudio]_vars

\* --------------------- DesignStudio: the remix and the voice tool calls

\* How many remix calls a behaviour starts.
MaxRemixes == 3

\* How many tool-call messages a behaviour receives.
MaxMessages == 2

\* What the remix call resolves with.
RemixImage ==
    PNG_DATA_URI_PREFIX \o RAW_PNG

GENERATION_FAILED ==
    "Generation Failed"

\* One entry of message.toolCall.functionCalls; arg is fc.args.vibeId,
\* fc.args.angleId or fc.args.action, whichever the tool declares.
FunctionCall(id, name, arg) ==
    [id |-> id, name |-> name, arg |-> arg]

\* The tool-call messages of the live session: known and unknown vibes, angles
\* and actions, one and two calls per message, and a tool the studio never
\* declared.
ToolCallMessages ==
    {<<FunctionCall("fc-1", "changeVibe", "neon"),
       FunctionCall("fc-2", "changeAngle", "top")>>,
     <<FunctionCall("fc-3", "changeVibe", "mars"),
       FunctionCall("fc-4", "changeAngle", "sideways")>>,
     <<FunctionCall("fc-5", "triggerAction", "generate")>>,
     <<FunctionCall("fc-6", "triggerAction", "generate"),
       FunctionCall("fc-7", "triggerAction", "generate")>>,
     <<FunctionCall("fc-8", "triggerAction", "ab_test_mode")>>,
     <<FunctionCall("fc-9", "triggerAction", "editorial_mode"),
       FunctionCall("fc-10", "triggerAction", "remix_mode")>>,
     <<FunctionCall("fc-11", "triggerAction", "dance")>>,
     <<FunctionCall("fc-12", "triggerAction", "download")>>,
     <<FunctionCall("fc-13", "triggerAction", "close")>>,
     <<FunctionCall("fc-14", "takePhoto", "")>>}

\* The messages that only ask for a remix.
GenerateMessages ==
    {msg \in ToolCallMessages : \A k \in DOMAIN msg : msg[k].arg = "generate"}

\* The component state the handlers of a tool-call message write.
StudioState ==
    [selectedSetting |-> selectedSetting, selectedAngle |-> selectedAngle,
     mode |-> mode, lastCommand |-> lastCommand, isGenerating |-> isGenerating,
     remixPending |-> remixPending, remixStarted |-> remixStarted,
     isOpen |-> showDesignStudio]

\* handleGenerate up to `await generateVariantImage(...)`: the guard reads
\* isGeneratingRef.current, which only the effect after a render writes.
handleGenerateStarts(st) ==
    IF isGeneratingRef \/ originalImage = Null
    THEN st
    ELSE [st EXCEPT !.isGenerating = TRUE,
                    !.remixPending = @ + 1,
                    !.remixStarted = @ + 1]

\* if (action === ...) of triggerAction, after setLastCommand(action).
\* handleDownloadPoster draws on a canvas and writes no component state.
triggerAction(st, action) ==
    LET commanded == [st EXCEPT !.lastCommand = action]
    IN  CASE action = "generate" -> handleGenerateStarts(commanded)
          [] action = "close" -> [commanded EXCEPT !.isOpen = FALSE]
          [] action = "editorial_mode" -> [commanded EXCEPT !.mode = "editorial"]
          [] action = "remix_mode" -> [commanded EXCEPT !.mode = "remix"]
          [] action = "ab_test_mode" -> [commanded EXCEPT !.mode = "ab"]
          [] OTHER -> commanded

\* "Execute Logic" for one function call.
executeLogic(st, fc) ==
    CASE fc.name = "changeVibe" ->
            IF fc.arg \in Range(SETTINGS)
            THEN [st EXCEPT !.selectedSetting = fc.arg]
            ELSE st
      [] fc.name = "changeAngle" ->
            IF fc.arg \in Range(ANGLES)
            THEN [st EXCEPT !.selectedAngle = fc.arg]
            ELSE st
      [] fc.name = "triggerAction" -> triggerAction(st, fc.arg)
      [] OTHER -> st

\* for (const fc of message.toolCall.functionCalls) { ... }
RECURSIVE executeAll(_, _)
executeAll(st, functionCalls) ==
    IF functionCalls = <<>>
    THEN st
    ELSE executeAll(executeLogic(st, Head(functionCalls)), Tail(functionCalls))

\* Mutant: the responses are pushed to the front of the list.
functionResponsesReversed(functionCalls) ==
    [k \in DOMAIN functionCalls |->
        [id |-> functionCalls[Len(functionCalls) + 1 - k].id,
         name |-> functionCalls[Len(functionCalls) + 1 - k].name,
         response |-> [result |-> [success |-> TRUE]]]]

\* responses.push({ id: fc.id, name: fc.name, response: { result } }) per call.
functionResponses(functionCalls) ==
    [k \in DOMAIN functionCalls |->
        [id |-> functionCalls[k].id, name |-> functionCalls[k].name,
         response |-> [result |-> [success |-> TRUE]]]]

\* A render commits: useEffect(() => { isGeneratingRef.current = isGenerating }).
Render ==
    /\ isGeneratingRef # isGenerating
    /\ isGeneratingRef' = isGenerating
    /\ UNCHANGED <<mode, isGenerating, generatedVariants, lastCommand, remixPending,
                   remixStarted, remixFailed, remixAlerts, toolCall, toolResponses,
                   toolMessages>>
    /\ UNCHANGED <<callVars, lensVars, promptVars, studioVars, alertVars, voiceVars, studioVoiceVars>>

\* The tab buttons: onClick={() => setMode(...)}.
setMode ==
    \E m \in {"remix", "ab", "editorial"} :
        /\ showDesignStudio
        /\ mode' = m
        /\ UNCHANGED <<isGenerating, isGeneratingRef, generatedVariants, lastCommand,
                       remixPending, remixStarted, remixFailed, remixAlerts, toolCall,
                       toolResponses, toolMessages>>
        /\ UNCHANGED <<callVars, lensVars, promptVars, studioVars, alertVars, voiceVars, studioVoiceVars>>

\* The GENERATE button, disabled={isGenerating || mode === 'ab'} as last
\* rendered: handleGenerate up to its await.
handleGenerate ==
    LET st == handleGenerateStarts(StudioState)
    IN  /\ showDesignStudio
        /\ ~isGeneratingRef
        /\ mode # "ab"
        /\ st.remixStarted <= MaxRemixes
        /\ isGenerating' = st.isGenerating
        /\ remixPending' = st.remixPending
        /\ remixStarted' = st.remixStarted
        /\ UNCHANGED <<mode, isGeneratingRef, generatedVariants, lastCommand,
                       remixFailed, remixAlerts, toolCall, toolResponses, toolMessages>>
        /\ UNCHANGED <<callVars, lensVars, promptVars, studioVars, alertVars, voiceVars, studioVoiceVars>>

\* onmessage of the studio's live session on a tool-call message: every function
\* call is executed in turn, then one tool response is sent.
studioOnmessage(messages) ==
    \E message \in messages :
        LET st == executeAll(StudioState, message)
        IN  /\ showDesignStudio
            /\ toolMessages < MaxMessages
            /\ st.remixStarted <= MaxRemixes
            /\ selectedSetting' = st.selectedSetting
            /\ selectedAngle' = st.selectedAngle
            /\ mode' = st.mode
            /\ lastCommand' = st.lastCommand
            /\ isGenerating' = st.isGenerating
            /\ remixPending' = st.remixPending
            /\ remixStarted' = st.remixStarted
            /\ showDesignStudio' = st.isOpen
            /\ toolCall' = message
            /\ toolResponses' = <<functionResponses(message)>>
            /\ toolMessages' = toolMessages + 1
            /\ UNCHANGED <<isGeneratingRef, generatedVariants, remixFailed, remixAlerts>>
            /\ UNCHANGED <<isRunningAB, abResults, variantA_Setting, variantB_Setting,
                           results, order, alerted, variantAngles>>
            /\ UNCHANGED <<appState, capturedImage, generatedResult, cameraRequested,
                           others, interrupted>>
            /\ UNCHANGED <<callVars, promptVars, alertVars, voiceVars, studioVoiceVars>>

onmessage ==
    studioOnmessage(ToolCallMessages)

\* A pending generateVariantImage of handleGenerate resolves and handleGenerate
\* resumes: the image is put first, the mode is remix; finally
\* setIsGenerating(false).
handleGenerateResumes ==
    /\ remixPending > 0
    /\ remixPending' = remixPending - 1
    /\ generatedVariants' = <<RemixImage>> \o generatedVariants
    /\ mode' = "remix"
    /\ isGenerating' = FALSE
    /\ UNCHANGED <<isGeneratingRef, lastCommand, remixStarted, remixFailed,
                   remixAlerts, toolCall, toolResponses, toolMessages>>
    /\ UNCHANGED <<callVars, lensVars, promptVars, studioVars, alertVars, voiceVars, studioVoiceVars>>

\* Mutant: the catch block alerts and starts the remix again.
handleGenerateCatchesRetrying ==
    /\ remixPending > 0
    /\ remixFailed < MaxRemixes
    /\ remixFailed' = remixFailed + 1
    /\ lastCommand' = GENERATION_FAILED
    /\ remixAlerts' = remixAlerts + 1
    /\ isGenerating' = TRUE
    /\ UNCHANGED <<remixPending, mode, isGeneratingRef, generatedVariants,
                   remixStarted, toolCall, toolResponses, toolMessages>>
    /\ UNCHANGED <<callVars, lensVars, promptVars, studioVars, alertVars, voiceVars, studioVoiceVars>>

\* Mutant: the catch block leaves the busy flag set.
handleGenerateCatchesKeepingBusy ==
    /\ remixPending > 0
    /\ remixPending' = remixPending - 1
    /\ remixFailed' = remixFailed + 1
    /\ lastCommand' = GENERATION_FAILED
    /\ remixAlerts' = remixAlerts + 1
    /\ UNCHANGED <<isGenerating, mode, isGeneratingRef, generatedVariants,
                   remixStarted, toolCall, toolResponses, toolMessages>>
    /\ UNCHANGED <<callVars, lensVars, promptVars, studioVars, alertVars, voiceVars, studioVoiceVars>>

\* A pending generateVariantImage of handleGenerate rejects (remixFailed counts
\* these) and handleGenerate resumes in its catch block: "Generation Failed",
\* one alert; finally setIsGenerating(false).
handleGenerateCatches ==
    /\ remixPending > 0
    /\ remixPending' = remixPending - 1
    /\ remixFailed' = remixFailed + 1
    /\ lastCommand' = GENERATION_FAILED
    /\ remixAlerts' = remixAlerts + 1
    /\ isGenerating' = FALSE
    /\ UNCHANGED <<mode, isGeneratingRef, generatedVariants, remixStarted, toolCall,
                   toolResponses, toolMessages>>
    /\ UNCHANGED <<callVars, lensVars, promptVars, studioVars, alertVars, voiceVars, studioVoiceVars>>

NextRemix ==
    \/ Render
    \/ setMode
    \/ handleGenerate
    \/ onmessage
    \/ handleGenerateResumes
    \/ handleGenerateCatches

SpecRemix ==
    StudioOpenedInit /\ [][NextRemix]_vars

\* The voice asks for remixes only.
onmessageGenerate ==
    studioOnmessage(GenerateMessages)

\* The studio opened on the demo image.
BusyInit ==
    /\ StudioOpenedInit
    /\ capturedImage = DEMO_IMAGE_URL

\* The A/B run with one challenger, one image and one draw of the statistics.
BusyRunABTest ==
    handleRunABTestWith({"neon"})

BusyVariantResolves ==
    VariantResolvesWith({RemixImage})

BusyRunABTestResumes ==
    handleRunABTestResumesWith({[ctr |-> 15, score |-> 70]})

\* Both busy handlers of the studio, with what the runtime guarantees: a pending
\* generation call settles (it is bounded by withRetry), the continuation of a
\* settled await runs, and a state change is followed by a render.
NextBusy ==
    \/ Render
    \/ handleGenerate
    \/ onmessageGenerate
    \/ handleGenerateResumes
    \/ handleGenerateCatches
    \/ BusyRunABTest
    \/ BusyVariantResolves
    \/ VariantRejects
    \/ BusyRunABTestResumes

SpecBusy ==
    /\ BusyInit
    /\ [][NextBusy]_vars
    /\ WF_vars(Render)
    /\ WF_vars(handleGenerateResumes \/ handleGenerateCatches)
    /\ WF_vars(BusyVariantResolves \/ VariantRejects)
    /\ WF_vars(BusyRunABTestResumes)

\* ------------------------------- MagicLens: the live voice session of the capture view

\* How many startCamera calls, and how many startLiveSession calls, are
\* suspended at once.
MaxStarts == 2

\* How many live sessions a behaviour connects.
MaxSessions == 2

\* A session returned by ai.live.connect, with the audio pipeline created for it:
\* state of the connection; stopLiveSession ran while liveSessionRef held it; its
\* ScriptProcessor still delivers onaudioprocess; chunk sends queued behind the
\* session promise; captures its messages triggered.
Session(state, stopped, processing, queued, triggers) ==
    [state |-> state, stopped |-> stopped, processing |-> processing,
     queued |-> queued, triggers |-> triggers]

\* processorRef.current, sourceRef.current and audioContextRef.current: the
\* pipeline created last (0: none). The refs are overwritten by each start and
\* never cleared.
processorRef ==
    Len(sessions)

\* stopLiveSession(), on the sessions: the pipeline in the refs is disconnected
\* and the session in liveSessionRef is closed once its promise has resolved.
stoppedSessions ==
    [k \in DOMAIN sessions |->
        Session(IF k = liveSessionRef /\ sessions[k].state = "open"
                THEN "closed"
                ELSE sessions[k].state,
                sessions[k].stopped \/ k = liveSessionRef,
                sessions[k].processing /\ k # processorRef,
                sessions[k].queued,
                sessions[k].triggers)]

\* startLiveSession() up to `await ensureApiKey()`.
startLiveSession ==
    /\ keyWaits' = IF liveSessionRef # 0 THEN keyWaits ELSE keyWaits + 1
    /\ UNCHANGED <<micWaits, sessions, liveSessionRef, captureLockRef>>
    /\ sentTo' = 0

\* Mutant: the queued send does not look at liveSessionRef again.
sendsQueuedUnchecked(k) ==
    sessions[k].queued > 0

\* The send queued behind the session promise, when the promise resolves:
\* if (liveSessionRef.current === sessionPromise) session.sendRealtimeInput(...)
sendsQueued(k) ==
    sessions[k].queued > 0 /\ liveSessionRef = k

\* START CREATOR, rendered while appState is IDLE: startCamera up to its awaits.
liveStartCamera ==
    /\ appState = "IDLE"
    /\ cameraStarts < MaxStarts
    /\ cameraStarts' = cameraStarts + 1
    /\ UNCHANGED <<keyWaits, micWaits, sessions, liveSessionRef, captureLockRef>>
    /\ sentTo' = 0
    /\ UNCHANGED <<callVars, lensVars, promptVars, studioVars, remixVars, alertVars, studioVoiceVars>>

\* startCamera resumes with the camera stream: CAMERA_ACTIVE, startLiveSession().
liveCameraGranted ==
    /\ cameraStarts > 0
    /\ keyWaits + micWaits < MaxStarts
    /\ cameraStarts' = cameraStarts - 1
    /\ appState' = "CAMERA_ACTIVE"
    /\ startLiveSession
    /\ UNCHANGED <<capturedImage, generatedResult, showDesignStudio, cameraRequested,
                   others, interrupted>>
    /\ UNCHANGED <<callVars, promptVars, studioVars, remixVars, alertVars, studioVoiceVars>>

\* startCamera resumes without a key or without the camera: an alert.
liveCameraDenied ==
    /\ cameraStarts > 0
    /\ cameraStarts' = cameraStarts - 1
    /\ UNCHANGED <<keyWaits, micWaits, sessions, liveSessionRef, captureLockRef>>
    /\ sentTo' = 0
    /\ UNCHANGED <<callVars, lensVars, promptVars, studioVars, remixVars, alertVars, studioVoiceVars>>

\* startLiveSession resumes from ensureApiKey: with a key it goes on to
\* getUserMedia({ audio: true }), without one it returns.
liveKeyChecked ==
    \E hasKey \in BOOLEAN :
        /\ keyWaits > 0
        /\ keyWaits' = keyWaits - 1
        /\ micWaits' = IF hasKey THEN micWaits + 1 ELSE micWaits
        /\ UNCHANGED <<cameraStarts, sessions, liveSessionRef, captureLockRef>>
        /\ sentTo' = 0
        /\ UNCHANGED <<callVars, lensVars, promptVars, studioVars, remixVars, alertVars, studioVoiceVars>>

\* startLiveSession resumes with the microphone stream: a new pipeline replaces
\* the refs, ai.live.connect is called and liveSessionRef holds its promise.
liveMicrophoneGranted ==
    /\ micWaits > 0
    /\ Len(sessions) < MaxSessions
    /\ micWaits' = micWaits - 1
    /\ sessions' = Append(sessions, Session("connecting", FALSE, TRUE, 0, 0))
    /\ liveSessionRef' = Len(sessions) + 1
    /\ UNCHANGED <<cameraStarts, keyWaits, captureLockRef>>
    /\ sentTo' = 0
    /\ UNCHANGED <<callVars, lensVars, promptVars, studioVars, remixVars, alertVars, studioVoiceVars>>

\* getUserMedia({ audio: true }) rejects: the catch block logs.
liveMicrophoneDenied ==
    /\ micWaits > 0
    /\ micWaits' = micWaits - 1
    /\ UNCHANGED <<cameraStarts, keyWaits, sessions, liveSessionRef, captureLockRef>>
    /\ sentTo' = 0
    /\ UNCHANGED <<callVars, lensVars, promptVars, studioVars, remixVars, alertVars, studioVoiceVars>>

\* The connection of a session opens: onopen clears the capture lock; then the
\* callbacks queued on the promise run, the sends first and the close of a
\* stopLiveSession after them.
liveSessionOpens ==
    \E k \in DOMAIN sessions :
        /\ sessions[k].state = "connecting"
        /\ captureLockRef' = FALSE
        /\ sentTo' = IF sendsQueued(k) THEN k ELSE 0
        /\ sessions' = [sessions EXCEPT ![k] =
                Session(IF sessions[k].stopped THEN "closed" ELSE "open",
                        sessions[k].stopped, sessions[k].processing, 0,
                        sessions[k].triggers)]
        /\ UNCHANGED <<cameraStarts, keyWaits, micWaits, liveSessionRef>>
        /\ UNCHANGED <<callVars, lensVars, promptVars, studioVars, remixVars, alertVars, studioVoiceVars>>

\* onaudioprocess of a pipeline whose session is the one in liveSessionRef: the
\* chunk is sent, or queued behind a promise still pending.
liveOnaudioprocess ==
    \E k \in DOMAIN sessions :
        /\ sessions[k].processing
        /\ liveSessionRef = k
        /\ IF sessions[k].state = "open"
           THEN /\ sentTo' = k
                /\ UNCHANGED sessions
           ELSE /\ sessions[k].state = "connecting"
                /\ sessions[k].queued = 0
                /\ sessions' = [sessions EXCEPT ![k].queued = 1]
                /\ sentTo' = 0
        /\ UNCHANGED <<cameraStarts, keyWaits, micWaits, liveSessionRef, captureLockRef>>
        /\ UNCHANGED <<callVars, lensVars, promptVars, studioVars, remixVars, alertVars, studioVoiceVars>>

\* captureAndGenerate() as the voice and the shutter button call it: nothing
\* without the video element (rendered in CAMERA_ACTIVE); else stopLiveSession()
\* (liveSessionRef is null after it), the frame is captured and the generation
\* begins. `by` is the session whose message called it, 0 for the button.
liveCapture(by) ==
    IF appState = "CAMERA_ACTIVE"
    THEN /\ \E dataUrl \in CapturedFrames :
              /\ capturedImage' = dataUrl
              /\ generatedVariants' = initialVariants(dataUrl)
         /\ appState' = "PROCESSING"
         /\ sessions' = [k \in DOMAIN sessions |->
                IF k = by
                THEN [stoppedSessions[k] EXCEPT !.triggers = @ + 1]
                ELSE stoppedSessions[k]]
         /\ liveSessionRef' = 0
    ELSE /\ UNCHANGED <<appState, capturedImage, generatedVariants, sessions,
                        liveSessionRef>>

\* onmessage of an open session with a takePhoto tool call or a TRIGGER_CAPTURE
\* transcription, the lock being free: the lock is taken, captureAndGenerate().
liveOnmessage ==
    \E k \in DOMAIN sessions :
        /\ sessions[k].state = "open"
        /\ ~captureLockRef
        /\ sessions[k].triggers < 2
        /\ captureLockRef' = TRUE
        /\ liveCapture(k)
        /\ UNCHANGED <<cameraStarts, keyWaits, micWaits>>
        /\ sentTo' = 0
        /\ UNCHANGED <<generatedResult, showDesignStudio, cameraRequested, others,
                       interrupted>>
        /\ UNCHANGED <<mode, isGenerating, isGeneratingRef, lastCommand, remixPending,
                       remixStarted, remixFailed, remixAlerts, toolCall, toolResponses,
                       toolMessages>>
        /\ UNCHANGED <<callVars, promptVars, studioVars, alertVars, studioVoiceVars>>

\* The shutter button, rendered in CAMERA_ACTIVE: captureAndGenerate().
liveCaptureAndGenerate ==
    /\ appState = "CAMERA_ACTIVE"
    /\ liveCapture(0)
    /\ UNCHANGED <<cameraStarts, keyWaits, micWaits, captureLockRef>>
    /\ sentTo' = 0
    /\ UNCHANGED <<generatedResult, showDesignStudio, cameraRequested, others,
                   interrupted>>
    /\ UNCHANGED <<mode, isGenerating, isGeneratingRef, lastCommand, remixPending,
                   remixStarted, remixFailed, remixAlerts, toolCall, toolResponses,
                   toolMessages>>
    /\ UNCHANGED <<callVars, promptVars, studioVars, alertVars, studioVoiceVars>>

\* The generation of the capture settles and captureAndGenerate resumes: the
\* result is shown, or the catch block alerts and returns to IDLE.
liveGenerationSettles ==
    /\ appState = "PROCESSING"
    /\ \/ \E imageUrl \in OtherResults :
            /\ generatedResult' = imageUrl
            /\ appState' = "RESULT"
            /\ UNCHANGED captureAlerts
       \/ /\ captureAlerts' = (captureAlerts + 1) % AlertWindow
          /\ appState' = "IDLE"
          /\ UNCHANGED generatedResult
    /\ UNCHANGED <<capturedImage, showDesignStudio, cameraRequested, others, interrupted>>
    /\ UNCHANGED <<cameraStarts, keyWaits, micWaits, sessions, liveSessionRef,
                   captureLockRef>>
    /\ sentTo' = 0
    /\ UNCHANGED <<callVars, promptVars, studioVars, remixVars, studioVoiceVars>>

\* reset, rendered with the result: the images are dropped, IDLE, startCamera().
liveReset ==
    /\ appState = "RESULT"
    /\ generatedResult # Null
    /\ cameraStarts < MaxStarts
    /\ capturedImage' = Null
    /\ generatedResult' = Null
    /\ appState' = "IDLE"
    /\ cameraStarts' = cameraStarts + 1
    /\ UNCHANGED <<keyWaits, micWaits, sessions, liveSessionRef, captureLockRef>>
    /\ sentTo' = 0
    /\ UNCHANGED <<showDesignStudio, cameraRequested, others, interrupted>>
    /\ UNCHANGED <<callVars, promptVars, studioVars, remixVars, alertVars, studioVoiceVars>>

NextVoice ==
    \/ liveStartCamera
    \/ liveCameraGranted
    \/ liveCameraDenied
    \/ liveKeyChecked
    \/ liveMicrophoneGranted
    \/ liveMicrophoneDenied
    \/ liveSessionOpens
    \/ liveOnaudioprocess
    \/ liveOnmessage
    \/ liveCaptureAndGenerate
    \/ liveGenerationSettles
    \/ liveReset

SpecVoice ==
    Init /\ [][NextVoice]_vars

\* ------------------------------- DesignStudio: the live voice session of the studio

\* A session returned by ai.live.connect with the microphone stream opened for
\* it: session.close() has been called; the tracks of the stream still run.
StudioSession(closed, streaming) ==
    [closed |-> closed, streaming |-> streaming]

\* streamRef.current (and the audio refs): the stream opened last, 0: none.
streamRef ==
    Len(studioSessions)

\* stopLiveSession(), on the sessions: the tracks of streamRef.current are
\* stopped and the session in liveSessionRef is closed.
studioStoppedSessions ==
    [k \in DOMAIN studioSessions |->
        StudioSession(studioSessions[k].closed \/ k = studioSessionRef,
                      studioSessions[k].streaming /\ k # streamRef)]

\* if (!isOpenRef.current) { stop the tracks; return } after getUserMedia.
connectsAfterMedia(isOpenRef) ==
    isOpenRef

\* The voice effect re-runs for new values of [isOpen, isMicEnabled]: its cleanup
\* clears the timeout and stops the session, then the body sets the timeout or
\* stops again.
voiceEffect(isOpen, micEnabled) ==
    /\ timeoutId' = (isOpen /\ micEnabled)
    /\ studioSessions' = studioStoppedSessions
    /\ studioSessionRef' = 0
    /\ UNCHANGED <<studioKeyWaits, studioMicWaits>>

\* The microphone button: setIsMicEnabled(!isMicEnabled).
toggleMic ==
    /\ showDesignStudio
    /\ isMicEnabled' = ~isMicEnabled
    /\ voiceEffect(showDesignStudio, ~isMicEnabled)
    /\ UNCHANGED <<callVars, lensVars, promptVars, studioVars, remixVars, voiceVars,
                   alertVars>>

\* The Remix Studio button with the studio's effects: isOpen becomes true.
studioOpens ==
    /\ generatedResult # Null
    /\ ~showDesignStudio
    /\ showDesignStudio' = TRUE
    /\ voiceEffect(TRUE, isMicEnabled)
    /\ UNCHANGED isMicEnabled
    /\ UNCHANGED <<appState, capturedImage, generatedResult, cameraRequested, others,
                   interrupted>>
    /\ UNCHANGED <<callVars, promptVars, studioVars, remixVars, voiceVars, alertVars>>

\* onClose with the studio's effects: isOpen becomes false.
studioCloses ==
    /\ showDesignStudio
    /\ showDesignStudio' = FALSE
    /\ voiceEffect(FALSE, isMicEnabled)
    /\ UNCHANGED isMicEnabled
    /\ UNCHANGED <<appState, capturedImage, generatedResult, cameraRequested, others,
                   interrupted>>
    /\ UNCHANGED <<callVars, promptVars, studioVars, remixVars, voiceVars, alertVars>>

\* The timeout fires: startLiveSession() up to `await ensureApiKey()`.
timeoutFires ==
    /\ timeoutId
    /\ timeoutId' = FALSE
    /\ studioKeyWaits + studioMicWaits < MaxStarts
    /\ studioKeyWaits' = IF studioSessionRef # 0 \/ ~showDesignStudio
                         THEN studioKeyWaits
                         ELSE studioKeyWaits + 1
    /\ UNCHANGED <<isMicEnabled, studioMicWaits, studioSessions, studioSessionRef>>
    /\ UNCHANGED <<callVars, lensVars, promptVars, studioVars, remixVars, voiceVars,
                   alertVars>>

\* startLiveSession resumes from ensureApiKey:
\* if (!hasKey || !isOpenRef.current) return, else getUserMedia({ audio: true }).
studioKeyChecked ==
    \E hasKey \in BOOLEAN :
        /\ studioKeyWaits > 0
        /\ studioKeyWaits' = studioKeyWaits - 1
        /\ studioMicWaits' = IF hasKey /\ showDesignStudio
                             THEN studioMicWaits + 1
                             ELSE studioMicWaits
        /\ UNCHANGED <<isMicEnabled, timeoutId, studioSessions, studioSessionRef>>
        /\ UNCHANGED <<callVars, lensVars, promptVars, studioVars, remixVars, voiceVars,
                       alertVars>>

\* startLiveSession resumes with the microphone stream: closed meanwhile, the
\* tracks are stopped; else the stream and a new pipeline replace the refs,
\* ai.live.connect is called and liveSessionRef holds its promise.
studioMicrophoneGranted ==
    /\ studioMicWaits > 0
    /\ Len(studioSessions) < MaxSessions
    /\ studioMicWaits' = studioMicWaits - 1
    /\ IF connectsAfterMedia(showDesignStudio)
       THEN /\ studioSessions' = Append(studioSessions, StudioSession(FALSE, TRUE))
            /\ studioSessionRef' = Len(studioSessions) + 1
       ELSE UNCHANGED <<studioSessions, studioSessionRef>>
    /\ UNCHANGED <<isMicEnabled, timeoutId, studioKeyWaits>>
    /\ UNCHANGED <<callVars, lensVars, promptVars, studioVars, remixVars, voiceVars,
                   alertVars>>

\* getUserMedia({ audio: true }) rejects: the catch block logs.
studioMicrophoneDenied ==
    /\ studioMicWaits > 0
    /\ studioMicWaits' = studioMicWaits - 1
    /\ UNCHANGED <<isMicEnabled, timeoutId, studioKeyWaits, studioSessions,
                   studioSessionRef>>
    /\ UNCHANGED <<callVars, lensVars, promptVars, studioVars, remixVars, voiceVars,
                   alertVars>>

\* The capture view showing the demo image, the studio not yet opened.
StudioClosedInit ==
    /\ CallInit
    /\ PromptInit
    /\ StudioInit
    /\ VoiceInit
    /\ StudioVoiceInit
    /\ captureAlerts = 0
    /\ appState = "RESULT"
    /\ capturedImage = DEMO_IMAGE_URL
    /\ generatedResult = DEMO_IMAGE_URL
    /\ cameraRequested = FALSE
    /\ RemixOpenedInit
    /\ showDesignStudio = FALSE
    /\ others = 0
    /\ interrupted = FALSE

NextStudioVoice ==
    \/ toggleMic
    \/ studioOpens
    \/ studioCloses
    \/ timeoutFires
    \/ studioKeyChecked
    \/ studioMicrophoneGranted
    \/ studioMicrophoneDenied

SpecStudioVoice ==
    StudioClosedInit /\ [][NextStudioVoice]_vars

\* ------------------------- the capture view and the studio, one after the other

\* The Remix Studio button pressed when no generation is in flight.
SurfaceOpenStudio ==
    /\ pc = "idle"
    /\ others = 0
    /\ openDesignStudio

\* The capture view, while the studio does not cover it.
NextCapture ==
    \/ startCamera
    \/ getUserMediaResolves
    \/ getUserMediaRejects
    \/ captureAndGenerate
    \/ captureAndGenerateResumes
    \/ OtherCaptureSettles
    \/ loadDemoImage
    \/ reset
    \/ SurfaceOpenStudio
    \/ Attempt
    \/ Exhausted
    \/ BackoffElapsed
    \/ LensRemoteRejects
    \/ LensRemoteResolves

\* The studio's generating handlers, by button.
NextGenerating ==
    \/ Render
    \/ handleGenerate
    \/ handleGenerateResumes
    \/ handleGenerateCatches
    \/ BusyRunABTest
    \/ BusyVariantResolves
    \/ VariantRejects
    \/ BusyRunABTestResumes

NextSurface ==
    \/ ~showDesignStudio /\ NextCapture
    \/ showDesignStudio /\ NextGenerating

\* Every user-initiated generation of the program: captures, then the studio.
SpecSurface ==
    Init /\ [][NextSurface]_vars

\* ------------------------------------------------------------------ claims

UnderRetry ==
    fn \in {"withRetry", "generateMarketingImage", "generateVariantImage"}

\* Every attempt made so far failed with a retryable error.
AllTransient ==
    \A k \in 1..Len(log) : log[k] = "transient"

\* The latest attempt has settled with this class.
LatestAttempt(class) ==
    /\ Len(log) = attempts
    /\ attempts > 0
    /\ log[attempts] = class

\* C1: Retry bound. The wrapped operation is never invoked more than `retries`
\* times; and when every attempt has failed with a retryable error and the call has
\* settled, the operation was invoked exactly `retries` times and the call rejected
\* with the error the last attempt raised.
C1_RetryBound ==
    UnderRetry =>
        /\ attempts <= retries
        /\ (pc = "done" /\ AllTransient) =>
                /\ settled = "rejected"
                /\ attempts = retries
                /\ Len(log) = retries
                /\ thrown = attemptError

C1_Witness ==
    /\ fn = "withRetry"
    /\ retries = DefaultRetries
    /\ pc = "done"
    /\ AllTransient
    /\ attempts = 3
    /\ thrown.status = 503

\* C2: Terminal errors are not retried. Once an attempt, the first or a later one,
\* has failed with a non-retryable error, the call has rejected with that same
\* error: no attempt follows it and no backoff wait is started for it (the waits
\* started are those of the retryable failures before it).
C2_TerminalNotRetried ==
    (UnderRetry /\ LatestAttempt("terminal")) =>
        /\ pc = "done"
        /\ settled = "rejected"
        /\ thrown = attemptError
        /\ Len(waits) = attempts - 1
        /\ \A k \in 1..(attempts - 1) : log[k] = "transient"

\* A terminal error on the first attempt yields exactly one attempt ...
C2_Witness ==
    /\ fn = "withRetry"
    /\ pc = "done"
    /\ log = <<"terminal">>
    /\ attempts = 1
    /\ waits = <<>>
    /\ thrown.status = 400

\* C3: Recovery from transient failure. After k < retries attempts that all failed
\* with retryable errors the call is still pending (attempt k+1 is made); and when
\* attempt k+1 succeeds, the call has resolved with that attempt's value after
\* exactly k+1 attempts.
C3_Recovery ==
    UnderRetry =>
        /\ (AllTransient /\ Len(log) < retries) => settled = "pending"
        /\ LatestAttempt("ok") =>
                /\ pc = "done"
                /\ settled = "fulfilled"
                /\ value = attemptValue
                /\ attempts <= retries
                /\ \A k \in 1..(attempts - 1) : log[k] = "transient"

\* {status: 503} twice, then success: the success value, 3 attempts in total.
C3_Witness ==
    /\ fn = "withRetry"
    /\ retries = DefaultRetries
    /\ log = <<"transient", "transient", "ok">>
    /\ lastError.status = 503
    /\ ~lastError.hasMessage
    /\ settled = "fulfilled"
    /\ value = <<"v", "1">>
    /\ attempts = 3

ImageEntryPoints ==
    {"generateMarketingImage", "generateVariantImage", "generateMarketingImageNoRetry"}

\* The content parts of the first candidate of the response received.
ResponseParts ==
    IF imageResponse.candidates = <<>> THEN <<>> ELSE Head(imageResponse.candidates)

HasInlineImage ==
    \E k \in DOMAIN ResponseParts : ResponseParts[k].inline

\* The remote call of the current attempt succeeded without an inline-image part.
EmptyResult ==
    /\ fn \in ImageEntryPoints
    /\ imageResponse.received
    /\ ~HasInlineImage

\* The data URIs of the images the remote call produced.
ProducedImages ==
    UNION {{PNG_DATA_URI_PREFIX \o imageResponse.candidates[c][k].data :
                k \in {n \in DOMAIN imageResponse.candidates[c] :
                            imageResponse.candidates[c][n].inline}} :
            c \in DOMAIN imageResponse.candidates}

\* value has the form data:image/png;base64,<payload>.
IsPngDataUri(s) ==
    /\ Len(s) >= Len(PNG_DATA_URI_PREFIX)
    /\ \A k \in 1..Len(PNG_DATA_URI_PREFIX) : s[k] = PNG_DATA_URI_PREFIX[k]

\* C5: Exactly-one-image invariant. A call of an image-generation entry point that
\* resolves resolves with one image the remote call produced, never with another
\* value.
C5_ExactlyOneImage ==
    (fn \in ImageEntryPoints /\ settled = "fulfilled") =>
        /\ imageResponse.received
        /\ value \in ProducedImages

\* C6: Output encoding. The imageUrl of every resolved generation call has the
\* form data:image/png;base64,<payload>.
C6_OutputEncoding ==
    (fn \in ImageEntryPoints /\ settled = "fulfilled") => IsPngDataUri(value)

\* C7: Empty-result policy. When the remote call succeeds without an inline-image
\* part in its first candidate, generateVariantImage rejects with the empty-result
\* error and generateMarketingImage resolves with the original input, unchanged.
C7_EmptyResultPolicy ==
    EmptyResult =>
        /\ pc = "done"
        /\ fn = "generateVariantImage" =>
                /\ settled = "rejected"
                /\ thrown.kind = "Error"
                /\ thrown.message = NO_IMAGE_MESSAGE
        /\ fn # "generateVariantImage" =>
                /\ settled = "fulfilled"
                /\ value = base64Image

\* No candidates at all, in the variant path.
C7_Witness ==
    /\ fn = "generateVariantImage"
    /\ imageResponse = Response(<<>>)
    /\ settled = "rejected"
    /\ thrown.message = NO_IMAGE_MESSAGE

\* C8 as stated: in the variant path an empty result means exactly one remote call
\* and no backoff wait in the whole call.
C8_ExactlyOneRemoteCall ==
    (EmptyResult /\ fn = "generateVariantImage") =>
        /\ settled = "rejected"
        /\ remoteCalls = 1
        /\ waits = <<>>

\* C8, amended: in the variant path the empty-result error is not retryable. The
\* call rejects with it in the attempt that received the empty response: no attempt
\* and no backoff wait follow it, and the remote calls made are that one and one per
\* retryable failure before it, so exactly one when it comes on the first attempt.
C8_EmptyResultTerminal ==
    (EmptyResult /\ fn = "generateVariantImage") =>
        /\ pc = "done"
        /\ settled = "rejected"
        /\ thrown = NoImageError
        /\ thrown.message = NO_IMAGE_MESSAGE
        /\ LatestAttempt("terminal")
        /\ Len(waits) = attempts - 1
        /\ remoteCalls = attempts
        /\ attempts = 1 => (remoteCalls = 1 /\ waits = <<>>)

C8_Witness ==
    /\ fn = "generateVariantImage"
    /\ EmptyResult
    /\ ResponseParts = <<TextPart>>
    /\ settled = "rejected"
    /\ remoteCalls = 1
    /\ waits = <<>>

\* C9: First-image extraction. On a response whose first candidate carries inline
\* data, the image returned is built from the first inline part in part order: the
\* text parts before it are skipped, the inline parts after it ignored.
C9_FirstImageExtraction ==
    (fn \in ImageEntryPoints /\ imageResponse.received /\ HasInlineImage) =>
        /\ settled = "fulfilled"
        /\ \E k \in DOMAIN ResponseParts :
                /\ ResponseParts[k].inline
                /\ \A j \in 1..(k - 1) : ~ResponseParts[j].inline
                /\ value = PNG_DATA_URI_PREFIX \o ResponseParts[k].data

\* A text part first, then two different images.
C9_Witness ==
    /\ fn = "generateVariantImage"
    /\ ResponseParts = <<TextPart, InlinePart(RAW_JPEG), InlinePart(RAW_PNG)>>
    /\ value = PNG_DATA_URI_PREFIX \o RAW_JPEG

HTTP_SCHEME ==
    <<"h", "t", "t", "p", ":", "/", "/">>

HTTPS_SCHEME ==
    <<"h", "t", "t", "p", "s", ":", "/", "/">>

\* An http:// or https:// URL.
IsHttpUrl(s) ==
    StartsWith(s, HTTP_SCHEME) \/ StartsWith(s, HTTPS_SCHEME)

\* data:<mime>;base64,<payload>
HasDataUriPrefix(s) ==
    StartsWith(s, DATA_SCHEME) /\ Includes(s, SEMI_BASE64_COMMA)

AfterDataUriPrefix(s) ==
    SubSeq(s, IndexOf(s, SEMI_BASE64_COMMA, 1) + Len(SEMI_BASE64_COMMA), Len(s))

\* C10: Input normalization, a three-way case split. An http(s):// URL, and no
\* other input, is fetched and yields the base64 text of the fetched bytes; an input
\* with a data-URI prefix yields the text after the prefix; every other input, so
\* every bare base64 payload, is passed through unchanged.
C10_InputNormalization ==
    (fn \in {"generateMarketingImage", "generateVariantImage"} /\ attempts > 0) =>
        /\ fetches > 0 <=> IsHttpUrl(base64Image)
        /\ pc = "remote" =>
                cleanBase64 = IF IsHttpUrl(base64Image) THEN blob
                              ELSE IF HasDataUriPrefix(base64Image)
                                   THEN AfterDataUriPrefix(base64Image)
                                   ELSE base64Image

\* The mime types and payloads of the data URIs normalised.
DataUriMimes ==
    {MIME_JPEG, MIME_PNG}

DataUriPayloads ==
    {RAW_JPEG, RAW_PNG, RAW_ABC123, RAW_HTTP}

\* C11: Round-trip. Normalising the data URI data:<m>;base64,<p> returns exactly p,
\* for every mime type m and payload p; "data:image/jpeg;base64,ABC123" gives
\* "ABC123".
C11_RoundTrip ==
    \A m \in DataUriMimes, p \in DataUriPayloads :
        (fn \in ImageEntryPoints /\ pc = "remote" /\ base64Image = DataUri(m, p)) =>
            /\ cleanBase64 = p
            /\ fetches = 0

C11_Witness ==
    /\ fn = "generateMarketingImage"
    /\ pc = "remote"
    /\ base64Image = DATA_SCHEME \o MIME_JPEG \o SEMI_BASE64_COMMA \o RAW_ABC123
    /\ cleanBase64 = <<"A", "B", "C", "1", "2", "3">>

\* The fetch of the current attempt has failed.
FetchFailed ==
    /\ fn \in {"generateMarketingImage", "generateVariantImage"}
    /\ attempts > 0
    /\ Len(log) = attempts
    /\ log[attempts] # "ok"
    /\ fetches = attempts
    /\ remoteCalls < attempts
    /\ attemptError.kind = "Error"

\* C12 as stated: a failed fetch means exactly one attempt and no remote generation
\* request in the whole call.
C12_ExactlyOneAttempt ==
    FetchFailed =>
        /\ settled = "rejected"
        /\ attempts = 1
        /\ remoteCalls = 0

\* C12, amended: the source-fetch error is terminal. The call rejects with it in the
\* attempt whose fetch failed: no attempt and no backoff wait follow it and that
\* attempt issues no remote generation request; the attempts before it each fetched
\* the image, issued the request and failed with a retryable error, so there is
\* exactly one attempt and no request when the fetch fails on the first attempt.
C12_SourceFetchTerminal ==
    FetchFailed =>
        /\ pc = "done"
        /\ settled = "rejected"
        /\ thrown = SourceImageError
        /\ thrown.message = SOURCE_IMAGE_MESSAGE
        /\ Len(waits) = attempts - 1
        /\ remoteCalls = attempts - 1
        /\ \A k \in 1..(attempts - 1) : log[k] = "transient"
        /\ attempts = 1 => (remoteCalls = 0 /\ waits = <<>>)

C12_Witness ==
    /\ fn = "generateMarketingImage"
    /\ base64Image = URL_HTTPS
    /\ FetchFailed
    /\ settled = "rejected"
    /\ attempts = 1
    /\ remoteCalls = 0
    /\ waits = <<>>

InFlight ==
    pc \notin {"idle", "done"}

\* C20: No cancellation, bounded completion. Once issued, a generation call always
\* terminates (resolves or rejects) after at most `retries` attempts, provided every
\* attempt and every backoff wait settles; and no step taken while the call is in
\* flight (closing the studio, resetting, loading the demo, starting another
\* capture) ends it otherwise: the call keeps its arguments, stays pending, and
\* leaves flight only by settling.
C20_BoundedCompletion ==
    /\ [](attempts <= retries)
    /\ InFlight ~> (pc = "done" /\ settled \in {"fulfilled", "rejected"})
    /\ [][InFlight =>
            /\ settled = "pending"
            /\ pc' # "idle"
            /\ pc' = "done" => settled' \in {"fulfilled", "rejected"}
            /\ <<fn, base64Image, retries, delay>>' = <<fn, base64Image, retries, delay>>
            /\ attempts' \in {attempts, attempts + 1}]_vars

\* The call exhausted its three attempts although the user went on meanwhile
\* (another capture is in flight and the studio has been opened and closed again).
C20_Witness ==
    /\ pc = "done"
    /\ settled = "rejected"
    /\ attempts = retries
    /\ interrupted
    /\ others = 1
    /\ ~showDesignStudio

\* The strict product-preservation (label-preservation) clause.
LABEL_PRESERVATION_CLAUSE ==
    <<"Y", "o", "u", " ", "M", "U", "S", "T", " ", "p", "r", "e", "s", "e", "r", "v", "e",
      " ", "t", "h", "e", " ", "P", "R", "O", "D", "U", "C", "T", " ", "T", "E", "X", "T",
      ",", " ", "L", "O", "G", "O", "S", ",", " ", "a", "n", "d", " ", "L", "A", "B", "E",
      "L", " ", "D", "E", "T", "A", "I", "L", "S", " ", "e", "x", "a", "c", "t", "l", "y",
      " ", "a", "s", " ", "t", "h", "e", "y", " ", "a", "p", "p", "e", "a", "r", " ", "i",
      "n", " ", "t", "h", "e", " ", "r", "e", "f", "e", "r", "e", "n", "c", "e", " ", "i",
      "m", "a", "g", "e", ".">>

\* The strict-mimicry (strict-pose) clause.
STRICT_MIMICRY_CLAUSE ==
    <<"S", "T", "R", "I", "C", "T", "L", "Y", " ", "m", "i", "m", "i", "c", " ", "t", "h",
      "e", " ", "e", "x", "a", "c", "t", " ", "a", "r", "m", " ", "a", "n", "g", "l", "e",
      ",", " ", "h", "a", "n", "d", " ", "g", "r", "i", "p", ",", " ", "a", "n", "d", " ",
      "b", "o", "d", "y", " ", "p", "o", "s", "t", "u", "r", "e", " ", "o", "f", " ", "t",
      "h", "e", " ", "r", "e", "f", "e", "r", "e", "n", "c", "e", " ", "i", "m", "a", "g",
      "e", ".">>

\* The creative-freedom clause.
CREATIVE_FREEDOM_CLAUSE ==
    <<"Y", "o", "u", " ", "h", "a", "v", "e", " ", "c", "r", "e", "a", "t", "i", "v", "e",
      " ", "f", "r", "e", "e", "d", "o", "m", " ", "w", "i", "t", "h", " ", "t", "h", "e",
      " ", "p", "o", "s", "e", ".">>

\* The identity-retention clause.
IDENTITY_RETENTION_CLAUSE ==
    <<"K", "e", "e", "p", " ", "t", "h", "e", " ", "u", "s", "e", "r", "'", "s", " ", "f",
      "a", "c", "e", " ", "a", "n", "d", " ", "i", "d", "e", "n", "t", "i", "t", "y", " ",
      "r", "e", "c", "o", "g", "n", "i", "z", "a", "b", "l", "e">>

\* The generative-replacement clause, in either wording of the two composers.
REPLACEMENT_CLAUSE ==
    <<"R", "e", "p", "l", "a", "c", "e", " ", "t", "h", "e", " ", "p", "e", "r", "s", "o",
      "n">>

\* The background-lock clause.
BACKGROUND_LOCK_CLAUSE ==
    <<"M", "a", "i", "n", "t", "a", "i", "n", " ", "t", "h", "e", " ", "o", "r", "i", "g",
      "i", "n", "a", "l", " ", "b", "a", "c", "k", "g", "r", "o", "u", "n", "d", " ", "e",
      "n", "v", "i", "r", "o", "n", "m", "e", "n", "t", " ", "a", "n", "d", " ", "g", "e",
      "o", "m", "e", "t", "r", "y", ".", " ", "D", "o", " ", "n", "o", "t", " ", "g", "e",
      "n", "e", "r", "a", "t", "e", " ", "a", " ", "n", "e", "w", " ", "b", "a", "c", "k",
      "g", "r", "o", "u", "n", "d", ",", " ", "o", "n", "l", "y", " ", "e", "n", "h", "a",
      "n", "c", "e", " ", "t", "h", "e", " ", "e", "x", "i", "s", "t", "i", "n", "g", " ",
      "o", "n", "e", ".">>

\* The monochrome clause.
MONOCHROME_CLAUSE ==
    <<"B", "l", "a", "c", "k", " ", "a", "n", "d", " ", "W", "h", "i", "t", "e", " ", "P",
      "h", "o", "t", "o", "g", "r", "a", "p", "h", "y", ",", " ", "H", "i", "g", "h", " ",
      "C", "o", "n", "t", "r", "a", "s", "t", ",", " ", "N", "o", "i", "r", " ", "S", "t",
      "y", "l", "e", ",", " ", "A", "n", "s", "e", "l", " ", "A", "d", "a", "m", "s", " ",
      "a", "e", "s", "t", "h", "e", "t", "i", "c", ".">>

\* The commercial-color clause.
COMMERCIAL_COLOR_CLAUSE ==
    <<"C", "o", "m", "m", "e", "r", "c", "i", "a", "l", ",", " ", "H", "i", "g", "h", " ",
      "K", "e", "y", ",", " ", "8", "k", " ", "R", "e", "s", "o", "l", "u", "t", "i", "o",
      "n", ",", " ", "S", "h", "a", "r", "p", " ", "F", "o", "c", "u", "s", ".">>

\* s.includes(sub), for a non-empty sub.
Contains(s, sub) ==
    \E at \in 1..(Len(s) - Len(sub) + 1) : SubSeq(s, at, at + Len(sub) - 1) = sub

ClausePresence(p, cfg) ==
    /\ p # <<>>
    /\ cfg.lockProduct => Contains(p, LABEL_PRESERVATION_CLAUSE)
    /\ cfg.strictPose => Contains(p, STRICT_MIMICRY_CLAUSE)
    /\ ~cfg.strictPose => Contains(p, CREATIVE_FREEDOM_CLAUSE)
    /\ cfg.keepFace => Contains(p, IDENTITY_RETENTION_CLAUSE)
    /\ ~cfg.keepFace => Contains(p, REPLACEMENT_CLAUSE)
    /\ cfg.lockLocation => Contains(p, BACKGROUND_LOCK_CLAUSE)
    /\ cfg.blackAndWhite => Contains(p, MONOCHROME_CLAUSE)
    /\ ~cfg.blackAndWhite => Contains(p, COMMERCIAL_COLOR_CLAUSE)

\* C14: Prompt clause presence. For each of the 32 configurations and any context,
\* the composed instruction (of either generateMarketingImage) is non-empty and
\* contains the clause matching each flag's value: lockProduct the strict
\* product-preservation clause; strictPose the strict-mimicry clause, and the
\* creative-freedom clause when false; keepFace the identity-retention clause,
\* and the replacement clause when false; lockLocation the background-lock clause;
\* blackAndWhite the monochrome clause, and the commercial-color clause when false.
C14_ClausePresence ==
    composer # "none" => ClausePresence(prompt, config)

\* The part of C14 that is about src/unnamed/part_002 alone.
ClausePresenceRetrying ==
    composer = "generateMarketingImage" => ClausePresence(prompt, config)

\* The text that follows "Context/Background: " in the instruction when the
\* context is embedded: the context and the period of the template.
EmbeddedContext(context) ==
    context \o <<".">>

\* The alternatives that must be absent under a configuration.
ExcludedClauses(cfg) ==
    (IF cfg.blackAndWhite THEN {COMMERCIAL_COLOR_CLAUSE} ELSE {MONOCHROME_CLAUSE})
        \cup (IF cfg.lockLocation THEN {} ELSE {BACKGROUND_LOCK_CLAUSE})
        \cup (IF cfg.keepFace THEN {REPLACEMENT_CLAUSE} ELSE {IDENTITY_RETENTION_CLAUSE})
        \cup (IF cfg.strictPose THEN {CREATIVE_FREEDOM_CLAUSE} ELSE {STRICT_MIMICRY_CLAUSE})

\* C15 as stated: Prompt clause exclusivity. In the composed instruction the two
\* alternatives of a flag never appear together: the clause of the flag's other
\* value (and the background-lock clause with lockLocation=false) is absent.
C15_ClauseExclusivity ==
    composer = "generateMarketingImage" =>
        \A clause \in ExcludedClauses(config) : ~Contains(prompt, clause)

\* C15, amended: the composer itself never puts both alternatives of a flag in the
\* instruction. The clause of the flag's other value (and the background-lock
\* clause with lockLocation=false) appears in the instruction only where the
\* context string, embedded verbatim and followed by a period, carries that text.
C15_ComposerExclusivity ==
    composer = "generateMarketingImage" =>
        \A clause \in ExcludedClauses(config) :
            Contains(prompt, clause) => Contains(EmbeddedContext(userPrompt), clause)

\* Monochrome and with the location free, on a context with no clause text: the
\* commercial-color and background-lock clauses are absent, the monochrome one is in.
C15_Witness ==
    /\ composer = "generateMarketingImage"
    /\ userPrompt = CONTEXT_BEACH_SUNSET
    /\ config.blackAndWhite
    /\ ~config.lockLocation
    /\ Contains(prompt, MONOCHROME_CLAUSE)
    /\ ~Contains(prompt, COMMERCIAL_COLOR_CLAUSE)
    /\ ~Contains(prompt, BACKGROUND_LOCK_CLAUSE)

\* The configuration of the scenario.
ScenarioConfig ==
    [lockProduct |-> TRUE, strictPose |-> TRUE, keepFace |-> TRUE,
     blackAndWhite |-> FALSE, lockLocation |-> FALSE]

BEACH_SUNSET ==
    <<"b", "e", "a", "c", "h", " ", "s", "u", "n", "s", "e", "t">>

\* C16: The free-text context is embedded verbatim. For every config and every
\* context c the composed instruction contains c as a literal substring; for the
\* scenario config and context "beach sunset" it contains the strict
\* label-preservation clause, the strict-pose clause, the identity-retention clause
\* and "beach sunset", and does not contain the monochrome clause.
C16_ContextVerbatim ==
    composer # "none" =>
        /\ Contains(prompt, userPrompt)
        /\ (config = ScenarioConfig /\ userPrompt = BEACH_SUNSET) =>
                /\ Contains(prompt, LABEL_PRESERVATION_CLAUSE)
                /\ Contains(prompt, STRICT_MIMICRY_CLAUSE)
                /\ Contains(prompt, IDENTITY_RETENTION_CLAUSE)
                /\ Contains(prompt, BEACH_SUNSET)
                /\ ~Contains(prompt, MONOCHROME_CLAUSE)

\* The scenario has been composed.
C16_Witness ==
    /\ composer = "generateMarketingImage"
    /\ config = ScenarioConfig
    /\ userPrompt = BEACH_SUNSET
    /\ Contains(prompt, BEACH_SUNSET)
    /\ Len(prompt) > Len(BEACH_SUNSET)

\* An A/B run has ended: handleRunABTest has resumed and returned.
RunEnded ==
    results # NoPromises /\ ~isRunningAB

Fulfilled(k) ==
    results[k].status = "fulfilled"

Rejected(k) ==
    results[k].status = "rejected"

\* The slot id of the promise at position k of the fan-out.
SlotId(k) ==
    IF k = 1 THEN "A" ELSE "B"

\* C18: Fan-out partial failure. In an A/B run both generation calls are issued and
\* both are awaited to settlement; when exactly one of them fails, the run stores
\* exactly one result, tagged with the slot (A or B) and the setting label of the
\* call that succeeded, and the run shows no failure notification.
C18_PartialFailure ==
    /\ isRunningAB => (Len(results) = 2 /\ abResults = <<>>)
    /\ RunEnded => \A k \in 1..2 : (Fulfilled(k) \/ Rejected(k))
    /\ \A k \in 1..2 :
        (RunEnded /\ Fulfilled(k) /\ Rejected(3 - k)) =>
            /\ Len(abResults) = 1
            /\ abResults[1].id = SlotId(k)
            /\ abResults[1].settingName = SettingLabel(results[k].setting)
            /\ abResults[1].image = results[k].imageUrl
            /\ ~alerted

\* The control failed and the challenger succeeded: one result, under 'B'.
C18_Witness ==
    /\ RunEnded
    /\ Rejected(1)
    /\ Fulfilled(2)
    /\ Len(abResults) = 1
    /\ abResults[1].id = "B"
    /\ ~alerted

\* The result stored under this id, if any, carries the image and the label of
\* the call that was made with this setting.
SlotCarries(id, setting) ==
    \A n \in DOMAIN abResults :
        abResults[n].id = id =>
            \E k \in 1..2 :
                /\ results[k].setting = setting
                /\ Fulfilled(k)
                /\ abResults[n].image = results[k].imageUrl
                /\ abResults[n].settingName = SettingLabel(setting)

\* C19: Slot matching is by position, not completion order. For either order in
\* which the two calls settle, the result under id 'A' carries the image of the
\* call made with the control setting and the result under id 'B' the image of the
\* call made with the challenger setting; when both succeed A precedes B.
C19_SlotMatching ==
    RunEnded =>
        /\ results[1].setting = variantA_Setting
        /\ results[2].setting = variantB_Setting
        /\ variantA_Setting # variantB_Setting
        /\ SlotCarries("A", variantA_Setting)
        /\ SlotCarries("B", variantB_Setting)
        /\ \A n \in DOMAIN abResults : abResults[n].id \in {"A", "B"}
        /\ (Fulfilled(1) /\ Fulfilled(2)) =>
                /\ Len(abResults) = 2
                /\ abResults[1].id = "A"
                /\ abResults[2].id = "B"

\* The challenger's call settled first, with another image than the control's.
C19_Witness ==
    /\ RunEnded
    /\ order = <<2, 1>>
    /\ Fulfilled(1)
    /\ Fulfilled(2)
    /\ results[1].imageUrl # results[2].imageUrl
    /\ abResults[1].id = "A"
    /\ abResults[1].image = results[1].imageUrl
    /\ abResults[2].id = "B"

\* C25: Result-state invariant of the capture view. In every reachable state where
\* appState is RESULT, capturedImage and generatedResult are both non-null, for
\* every interleaving of a pending captureAndGenerate resolving or rejecting with
\* loadDemoImage and reset invoked while that generation is pending.
C25_ResultState ==
    appState = "RESULT" => (capturedImage # Null /\ generatedResult # Null)

\* C29: A/B challenger differs from control. The step that starts an A/B run
\* takes the selected setting for variant A, a member of SETTINGS different from
\* it for variant B, and passes the selected camera angle to both calls; while
\* the run is in flight the two calls carry these settings and the same angle.
C29_ChallengerDiffers ==
    /\ [][(~isRunningAB /\ isRunningAB') =>
            /\ variantA_Setting' = selectedSetting
            /\ variantB_Setting' \in Range(SETTINGS) \ {selectedSetting}
            /\ variantAngles' = <<selectedAngle, selectedAngle>>]_vars
    /\ [](isRunningAB =>
            /\ results[1].setting = variantA_Setting
            /\ results[2].setting = variantB_Setting
            /\ variantB_Setting \in Range(SETTINGS)
            /\ variantB_Setting # variantA_Setting
            /\ variantAngles[1] = variantAngles[2])

\* A run is in flight on a setting and an angle chosen after the defaults were
\* changed, and the selection has since moved on to the challenger's setting.
C29_Witness ==
    /\ isRunningAB
    /\ variantA_Setting = "bananas"
    /\ variantB_Setting = "neon"
    /\ variantAngles = <<"macro", "macro">>
    /\ selectedSetting = "neon"

\* C22: Single in-flight remix. At most one generateVariantImage call started by
\* handleGenerate is pending at any time, for every interleaving of button clicks
\* and voice 'generate' tool calls, including two 'generate' function calls
\* delivered in one tool-call message before the component re-renders.
C22_SingleRemix ==
    remixPending <= 1

\* The actions the studio's triggerAction tool acts on.
KnownActions ==
    {"generate", "close", "download", "editorial_mode", "remix_mode", "ab_test_mode"}

\* A function call naming a vibe, an angle or an action the studio does not have.
UnknownCall(fc) ==
    \/ fc.name = "changeVibe" /\ fc.arg \notin Range(SETTINGS)
    \/ fc.name = "changeAngle" /\ fc.arg \notin Range(ANGLES)
    \/ fc.name = "triggerAction" /\ fc.arg \notin KnownActions

\* The tool responses sent for the latest message are one response that
\* acknowledges each of its calls, in order.
Acknowledged ==
    /\ Len(toolResponses) = 1
    /\ Len(toolResponses[1]) = Len(toolCall)
    /\ \A k \in DOMAIN toolCall :
          /\ toolResponses[1][k].id = toolCall[k].id
          /\ toolResponses[1][k].name = toolCall[k].name
          /\ toolResponses[1][k].response.result.success = TRUE

\* C27: Tool-call acknowledgement. For every tool-call message carrying n
\* function calls the studio sends exactly one tool response containing n
\* function responses, in the same order, each with the id and name of its call
\* and result success; the step that handles a message of unknown vibe ids,
\* angle ids or actions leaves selectedSetting, selectedAngle and mode unchanged
\* and acknowledges it all the same.
C27_Acknowledgement ==
    /\ [](toolMessages > 0 => Acknowledged)
    /\ [][(toolMessages' # toolMessages
            /\ \A k \in DOMAIN toolCall' : UnknownCall(toolCall'[k])) =>
            /\ selectedSetting' = selectedSetting
            /\ selectedAngle' = selectedAngle
            /\ mode' = mode
            /\ Acknowledged']_vars

\* A message of two unknown ids has been acknowledged, after an earlier message
\* had changed the setting and the angle.
C27_Witness ==
    /\ toolMessages = 2
    /\ toolCall = <<FunctionCall("fc-3", "changeVibe", "mars"),
                    FunctionCall("fc-4", "changeAngle", "sideways")>>
    /\ Len(toolResponses[1]) = 2
    /\ selectedSetting = "neon"
    /\ selectedAngle = "top"

\* C28: Busy flags are always released. isGenerating is true only while a
\* generateVariantImage call of handleGenerate is pending, and the step in which
\* handleGenerate finishes, with a result or in its catch block, leaves it false;
\* whenever isGenerating, the rendered isGeneratingRef or isRunningAB is true it
\* is eventually false again, so the GENERATE and A/B actions become available
\* again after every outcome.
C28_BusyReleased ==
    /\ [](isGenerating => remixPending > 0)
    /\ [][remixPending' < remixPending => ~isGenerating']_vars
    /\ (isGenerating ~> ~isGenerating)
    /\ (isGeneratingRef ~> ~isGeneratingRef)
    /\ (isRunningAB ~> ~isRunningAB)

\* A remix has failed and an A/B run has ended in the alert, and both flags are
\* down again.
C28_Witness ==
    /\ remixFailed > 0
    /\ alerted
    /\ ~isGenerating
    /\ ~isGeneratingRef
    /\ ~isRunningAB

\* The followed capture has rejected and captureAndGenerate resumes.
CaptureFails ==
    /\ pc = "done"
    /\ fn = "generateMarketingImage"
    /\ settled = "rejected"
    /\ pc' # pc

\* Both calls of the A/B run have rejected and handleRunABTest resumes.
ABRunFails ==
    /\ isRunningAB
    /\ ~isRunningAB'
    /\ \A k \in DOMAIN results : results[k].status = "rejected"

\* C21: Failure surfacing. The step in which a failed operation ends raises
\* exactly one failure notification, stores no result and starts no new call:
\* a failed capture leaves generatedResult as it was and returns to IDLE, a
\* failed remix leaves generatedVariants as it was, and an A/B run in which both
\* calls failed leaves abResults empty.
C21_FailureSurfacing ==
    /\ [][CaptureFails =>
            /\ captureAlerts' = (captureAlerts + 1) % AlertWindow
            /\ generatedResult' = generatedResult
            /\ appState' = "IDLE"
            /\ pc' = "idle"
            /\ others' = others]_vars
    /\ [][remixFailed' # remixFailed =>
            /\ remixAlerts' = remixAlerts + 1
            /\ generatedVariants' = generatedVariants
            /\ remixPending' = remixPending - 1
            /\ remixStarted' = remixStarted]_vars
    /\ [][ABRunFails =>
            /\ ~alerted
            /\ alerted'
            /\ abResults' = <<>>
            /\ results' = results]_vars

\* A capture has failed, and in the studio opened on a later result a remix has
\* failed and an A/B run has ended with both calls rejected.
C21_Witness ==
    /\ captureAlerts = 1
    /\ showDesignStudio
    /\ remixFailed = 1
    /\ remixAlerts = 1
    /\ alerted
    /\ abResults = <<>>
    /\ ~isRunningAB

\* The sessions whose connection is open.
OpenSessions ==
    {k \in DOMAIN sessions : sessions[k].state = "open"}

\* The audio pipelines still delivering microphone audio.
RunningPipelines ==
    {k \in DOMAIN sessions : sessions[k].processing}

\* C23: Single live session in the capture view. At most one realtime voice
\* session is open and at most one microphone audio pipeline is running at any
\* time, for every interleaving of startCamera, reset and captureAndGenerate,
\* including a second startLiveSession that begins while the first is still
\* awaiting the API-key check or the microphone permission.
C23_SingleSession ==
    /\ Cardinality(OpenSessions) <= 1
    /\ Cardinality(RunningPipelines) <= 1

\* C26: Voice capture fires at most once per live session. No session's
\* messages trigger captureAndGenerate a second time.
C26_OncePerSession ==
    \A k \in DOMAIN sessions : sessions[k].triggers <= 1

\* C30: No audio reaches a stopped session. Every step that sends an audio
\* chunk sends it to the session held in liveSessionRef, which is open and on
\* which stopLiveSession has not run; this includes the sends that were queued
\* behind the session promise when stopLiveSession ran.
C30_NoAudioAfterStop ==
    [][sentTo' # 0 =>
        /\ sentTo' = liveSessionRef
        /\ liveSessionRef' = liveSessionRef
        /\ sessions'[sentTo'].state = "open"
        /\ ~sessions[sentTo'].stopped
        /\ ~sessions'[sentTo'].stopped]_vars

\* The first session was stopped while connecting, with a send queued behind its
\* promise; audio has since gone to the session that replaced it.
C30_Witness ==
    /\ Len(sessions) >= 2
    /\ sessions[1].state = "connecting"
    /\ sessions[1].stopped
    /\ sessions[1].queued = 1
    /\ liveSessionRef = 2
    /\ sentTo = 2

\* C24: Studio voice session follows its enabling condition. Whenever the studio
\* is closed or the microphone toggle is off, and no startLiveSession is
\* suspended at an await, no live voice session is open and no microphone
\* stream is running.
C24_SessionFollowsToggle ==
    ((~showDesignStudio \/ ~isMicEnabled)
        /\ studioKeyWaits = 0 /\ studioMicWaits = 0) =>
    \A k \in DOMAIN studioSessions :
        studioSessions[k].closed /\ ~studioSessions[k].streaming

====
